---- MODULE Spec2Model ----
(***************************************************************************)
(* The stdio <-> backend bridge of plugin-transport-stdio: the read loop   *)
(* StdioTransport.Run, the method dispatch, the six handlers and the       *)
(* translation between structpb values and native Go values.               *)
(*                                                                         *)
(* Values are tagged records. Three value models are kept apart:           *)
(*   JSON text values   [k |-> "null" | "num" | "str" | "bool" | ...]      *)
(*   native Go values   [g |-> "nil" | "float64" | "string" | ...]         *)
(*   structpb values    [pk |-> "NullValue" | "NumberValue" | ...]         *)
(* and every conversion between them is computed case by case.             *)
(***************************************************************************)
EXTENDS Integers, Sequences, FiniteSets, TLC

(* ------------------------------------------------------------------ *)
(* Bounds of the model                                                  *)
(* ------------------------------------------------------------------ *)

\* Longest input (number of lines) the run loop is fed.
MaxLines == 3

(* ------------------------------------------------------------------ *)
(* Program constants                                                    *)
(* ------------------------------------------------------------------ *)

maxScannerBuffer == 10485760

ParseError == -32700
InvalidRequest == -32600
MethodNotFound == -32601
InvalidParams == -32602
InternalError == -32603

(* ------------------------------------------------------------------ *)
(* Strings                                                              *)
(* ------------------------------------------------------------------ *)

\* strings.HasPrefix
HasPrefix(s, p) == Len(s) >= Len(p) /\ SubSeq(s, 1, Len(p)) = p

\* strings.Contains
Contains(s, sub) ==
    \E i \in 1..(Len(s) - Len(sub) + 1) : SubSeq(s, i, i + Len(sub) - 1) = sub

(* ------------------------------------------------------------------ *)
(* Strings and their order                                             *)
(* ------------------------------------------------------------------ *)

\* The characters a string of the model is made of, in ascending byte
\* order: tab, line feed, form feed, carriage return (bytes 9, 10, 12, 13)
\* and the printable ASCII characters (bytes 32 to 126) except the
\* backquote, which no string of this module holds.
Chars ==
    "\t\n\f\r !\"#$%&'()*+,-./0123456789:;<=>?@ABCDEFGHIJKLMNOPQRSTUVWXYZ[\\]^_abcdefghijklmnopqrstuvwxyz{|}~"

\* The place of each character in that order.
Place ==
    [c \in {SubSeq(Chars, i, i) : i \in 1..Len(Chars)} |->
        CHOOSE i \in 1..Len(Chars) : SubSeq(Chars, i, i) = c]

\* s < t for Go strings: byte by byte, a proper prefix first.
RECURSIVE Less(_, _)
Less(s, t) ==
    IF t = "" THEN FALSE
    ELSE IF s = "" THEN TRUE
    ELSE LET a == Place[SubSeq(s, 1, 1)]
             b == Place[SubSeq(t, 1, 1)]
         IN IF a # b THEN a < b
            ELSE Less(SubSeq(s, 2, Len(s)), SubSeq(t, 2, Len(t)))

\* The keys of a map in the order in which encoding/json and fmt write them:
\* sorted as strings.
KeysOf(m) ==
    [i \in 1..Cardinality(DOMAIN m) |->
        CHOOSE key \in DOMAIN m :
            Cardinality({other \in DOMAIN m : Less(other, key)}) = i - 1]

(* ------------------------------------------------------------------ *)
(* JSON text values (what a line of input spells)                      *)
(* ------------------------------------------------------------------ *)

JNull == [k |-> "null"]
JNum(n) == [k |-> "num", n |-> n]
JStr(s) == [k |-> "str", s |-> s]
JBool(b) == [k |-> "bool", b |-> b]
JList(l) == [k |-> "list", l |-> l]
\* An object is its members and the order in which its text writes them:
\* the given order, or the sorted one.
JObjIn(o, order) == [k |-> "obj", o |-> o, order |-> order]
JObj(o) == JObjIn(o, KeysOf(o))

\* The object with no members, and the function with no keys behind it.
NoFields == [x \in {} |-> JNull]
JEmptyObj == JObj(NoFields)

HasKey(o, key) == key \in DOMAIN o

(* ------------------------------------------------------------------ *)
(* Native Go values (encoding/json decoding into `any`)                 *)
(* ------------------------------------------------------------------ *)

GoNil == [g |-> "nil"]
GoFloat(n) == [g |-> "float64", n |-> n]
GoString(s) == [g |-> "string", s |-> s]
GoBool(b) == [g |-> "bool", b |-> b]
GoSlice(l) == [g |-> "slice", l |-> l]
GoMap(m) == [g |-> "map", m |-> m]
\* A nil map[string]any, as opposed to an allocated map of length 0.
GoNilMap == [g |-> "nilmap"]

\* json.Unmarshal of a JSON value into a Go `any`.
RECURSIVE JSONToGo(_)
JSONToGo(v) ==
    CASE v.k = "null" -> GoNil
      [] v.k = "num"  -> GoFloat(v.n)
      [] v.k = "str"  -> GoString(v.s)
      [] v.k = "bool" -> GoBool(v.b)
      [] v.k = "list" -> GoSlice([i \in DOMAIN v.l |-> JSONToGo(v.l[i])])
      [] v.k = "obj"  -> GoMap([key \in DOMAIN v.o |-> JSONToGo(v.o[key])])

\* The keys of a JSON object in the order of its text.
MembersOf(v) == v.order

\* encoding/json's folding of a key, under which it compares a key with the
\* names of a struct's fields: the ASCII letters in upper case.
foldName(s) ==
    LET RECURSIVE Folded(_)
        Folded(n) ==
            IF n = 0 THEN ""
            ELSE LET at == Place[SubSeq(s, n, n)]
                     up == IF Place["a"] <= at /\ at <= Place["z"]
                           THEN at - (Place["a"] - Place["A"])
                           ELSE at
                 IN Folded(n - 1) \o SubSeq(Chars, up, up)
    IN Folded(Len(s))

\* The field of a struct that a key of the text names: the field of that
\* very name or else the one equal to it under folding, "" when the struct
\* has none (the decoder then passes the member over).
FieldNamed(key, fields) ==
    IF key \in fields THEN key
    ELSE IF \E f \in fields : foldName(f) = foldName(key)
    THEN CHOOSE f \in fields : foldName(f) = foldName(key)
    ELSE ""

\* fmt's %v verb applied to a float64 that holds the integer n: strconv's
\* shortest 'g' format, which writes the digits when the decimal exponent is
\* below 6 and d.ddde+XX from 1e+06 up.
FormatFloat(n) ==
    LET digits == ToString(IF n < 0 THEN 0 - n ELSE n)
        RECURSIVE Stripped(_)
        Stripped(d) ==
            IF Len(d) > 1 /\ SubSeq(d, Len(d), Len(d)) = "0"
            THEN Stripped(SubSeq(d, 1, Len(d) - 1))
            ELSE d
        mantissa == Stripped(digits)
        exp == Len(digits) - 1
    IN IF -1000000 < n /\ n < 1000000 THEN ToString(n)
       ELSE (IF n < 0 THEN "-" ELSE "")
            \o SubSeq(mantissa, 1, 1)
            \o (IF Len(mantissa) > 1 THEN "." \o SubSeq(mantissa, 2, Len(mantissa)) ELSE "")
            \o "e+" \o (IF exp < 10 THEN "0" ELSE "") \o ToString(exp)

\* fmt's %v verb applied to a native value (a decoded request id, a map).
RECURSIVE FormatV(_), FormatItems(_, _), FormatEntries(_, _)
FormatV(v) ==
    CASE v.g = "nil"     -> "<nil>"
      [] v.g = "float64" -> IF "f" \in DOMAIN v THEN v.f ELSE FormatFloat(v.n)
      [] v.g = "string"  -> v.s
      [] v.g = "bool"    -> IF v.b THEN "true" ELSE "false"
      [] v.g = "slice"   -> "[" \o FormatItems(v.l, 1) \o "]"
      [] v.g = "map"     -> "map[" \o FormatEntries(v.m, KeysOf(v.m)) \o "]"
      [] v.g = "nilmap"  -> "map[]"
      [] OTHER           -> "?"

FormatItems(l, i) ==
    IF i > Len(l) THEN ""
    ELSE (IF i > 1 THEN " " ELSE "") \o FormatV(l[i]) \o FormatItems(l, i + 1)

FormatEntries(m, keys) ==
    IF keys = <<>> THEN ""
    ELSE Head(keys) \o ":" \o FormatV(m[Head(keys)])
         \o (IF Len(keys) > 1 THEN " " ELSE "") \o FormatEntries(m, Tail(keys))

\* json.Marshal of a native value: whether it fails (a NaN or an infinity
\* has no JSON spelling), the value its error names, and the compact text it
\* writes otherwise.
RECURSIVE Unencodable(_)
Unencodable(v) ==
    CASE v.g = "float64" -> "f" \in DOMAIN v
      [] v.g = "slice"   -> \E i \in DOMAIN v.l : Unencodable(v.l[i])
      [] v.g = "map"     -> \E key \in DOMAIN v.m : Unencodable(v.m[key])
      [] OTHER           -> FALSE

\* The value json.Marshal's UnsupportedValueError names: the first NaN or
\* infinity the encoder comes to (the items of a slice in their order, the
\* entries of a map in the order of their keys), spelled as strconv does.
RECURSIVE UnsupportedValue(_)
UnsupportedValue(v) ==
    CASE v.g = "float64" -> v.f
      [] v.g = "slice"   ->
            UnsupportedValue(v.l[CHOOSE i \in DOMAIN v.l :
                /\ Unencodable(v.l[i])
                /\ \A h \in 1..(i - 1) : ~Unencodable(v.l[h])])
      [] v.g = "map"     ->
            UnsupportedValue(v.m[CHOOSE key \in DOMAIN v.m :
                /\ Unencodable(v.m[key])
                /\ \A other \in DOMAIN v.m \ {key} :
                       Unencodable(v.m[other]) => Less(key, other)])

\* encoding/json's spelling of a string between its quotes, HTML escaping
\* on: the quote and the backslash behind a backslash, the control
\* characters as \t \n \f \r, and < > & as \u003c \u003e \u0026.
RECURSIVE EscapeString(_)
EscapeString(s) ==
    IF s = "" THEN ""
    ELSE LET c == SubSeq(s, 1, 1)
         IN (CASE c = "\"" -> "\\\""
               [] c = "\\" -> "\\\\"
               [] c = "\t" -> "\\t"
               [] c = "\n" -> "\\n"
               [] c = "\f" -> "\\f"
               [] c = "\r" -> "\\r"
               [] c = "<"  -> "\\u003c"
               [] c = ">"  -> "\\u003e"
               [] c = "&"  -> "\\u0026"
               [] OTHER    -> c)
            \o EscapeString(SubSeq(s, 2, Len(s)))

RECURSIVE EncodeGo(_), EncodeItems(_, _), EncodeMembers(_, _)
EncodeGo(v) ==
    CASE v.g = "nil"     -> "null"
      [] v.g = "float64" -> ToString(v.n)
      [] v.g = "string"  -> "\"" \o EscapeString(v.s) \o "\""
      [] v.g = "bool"    -> IF v.b THEN "true" ELSE "false"
      [] v.g = "slice"   -> "[" \o EncodeItems(v.l, 1) \o "]"
      [] v.g = "map"     -> "{" \o EncodeMembers(v.m, KeysOf(v.m)) \o "}"
      [] v.g = "nilmap"  -> "null"
      [] OTHER           -> "?"

EncodeItems(l, i) ==
    IF i > Len(l) THEN ""
    ELSE (IF i > 1 THEN "," ELSE "") \o EncodeGo(l[i]) \o EncodeItems(l, i + 1)

EncodeMembers(m, keys) ==
    IF keys = <<>> THEN ""
    ELSE "\"" \o EscapeString(Head(keys)) \o "\":" \o EncodeGo(m[Head(keys)])
         \o (IF Len(keys) > 1 THEN "," ELSE "") \o EncodeMembers(m, Tail(keys))

(* ------------------------------------------------------------------ *)
(* Input lines and the request envelope                                 *)
(* ------------------------------------------------------------------ *)

\* The text between the line's surrounding white space: nothing, text that
\* is not JSON, or the JSON value it spells.
Empty == [b |-> "empty"]
Malformed == [b |-> "malformed"]
Json(v) == [b |-> "json", v |-> v]

\* One line of the input stream: its length in bytes, whether white space
\* surrounds its text, and the text.
Line(size, ws, body) == [size |-> size, ws |-> ws, body |-> body]

\* Variant of TrimSpace that leaves the white space around the text, so
\* that a line of white space only is text that is not JSON.
TrimSpace_Keeps(line) ==
    IF line.ws /\ line.body = Empty THEN Malformed ELSE line.body

\* strings.TrimSpace of the scanned text
TrimSpace(line) == line.body

\* The name encoding/json gives a JSON value's kind in its type errors.
JSONKindName(v) ==
    CASE v.k = "num"  -> "number"
      [] v.k = "str"  -> "string"
      [] v.k = "bool" -> "bool"
      [] v.k = "list" -> "array"
      [] v.k = "obj"  -> "object"
      [] OTHER        -> "null"

\* req.Params (json.RawMessage): nil when the member is absent, otherwise the
\* member's raw value, a null included.
NilRaw == [p |-> "nil"]
Raw(v) == [p |-> "raw", v |-> v]

JSONRPCRequest(jsonrpc, id, method, params) ==
    [JSONRPC |-> jsonrpc, ID |-> id, Method |-> method, Params |-> params]

ZeroRequest == JSONRPCRequest("", GoNil, "", NilRaw)

\* Decoding the value of one member into a string-typed field that holds
\* `old`: a null leaves the field as it is, a string sets it, any other kind
\* is a type error that names the field and leaves it as it is.
StringMember(val, old, field) ==
    IF val.k = "null" THEN [err |-> "", s |-> old]
    ELSE IF val.k = "str" THEN [err |-> "", s |-> val.s]
    ELSE [err |-> "json: cannot unmarshal " \o JSONKindName(val)
                  \o " into Go struct field " \o field \o " of type string",
          s |-> old]

\* json.Unmarshal([]byte(line), &req): [err, req], err = "" when it succeeds.
\* The members are decoded in the order of the text, each into the field its
\* key names, so that a field named several times holds what its last
\* member left. The decoder goes on after a member of the wrong kind and
\* reports the first one.
UnmarshalRequest(body) ==
    IF body.b # "json"
    THEN [err |-> "invalid character 'i' looking for beginning of object key string",
          req |-> ZeroRequest]
    ELSE IF body.v.k = "null" THEN [err |-> "", req |-> ZeroRequest]
    ELSE IF body.v.k # "obj"
    THEN [err |-> "json: cannot unmarshal " \o JSONKindName(body.v)
                  \o " into Go value of type protocol.JSONRPCRequest",
          req |-> ZeroRequest]
    ELSE LET o == body.v.o
             order == MembersOf(body.v)
             Member(acc, key) ==
                 LET field == FieldNamed(key, {"jsonrpc", "id", "method", "params"})
                     str(old) == StringMember(o[key], old, "JSONRPCRequest." \o field)
                 IN CASE field = "jsonrpc" ->
                            [acc EXCEPT !.err = IF @ = "" THEN str("").err ELSE @,
                                        !.req.JSONRPC = str(@).s]
                      [] field = "method"  ->
                            [acc EXCEPT !.err = IF @ = "" THEN str("").err ELSE @,
                                        !.req.Method = str(@).s]
                      [] field = "id"      -> [acc EXCEPT !.req.ID = JSONToGo(o[key])]
                      [] field = "params"  -> [acc EXCEPT !.req.Params = Raw(o[key])]
                      [] OTHER             -> acc
             RECURSIVE Decoded(_)
             Decoded(n) ==
                 IF n = 0 THEN [err |-> "", req |-> ZeroRequest]
                 ELSE Member(Decoded(n - 1), order[n])
         IN Decoded(Len(order))

(* ------------------------------------------------------------------ *)
(* The response envelope                                                *)
(* ------------------------------------------------------------------ *)

\* resp.Result == nil and resp.Error == nil
NoResult == [r |-> "nil"]
NoError == [e |-> "nil"]
JSONRPCError(code, message) == [e |-> "error", Code |-> code, Message |-> message]

JSONRPCResponse(id, result, error) ==
    [JSONRPC |-> "2.0", ID |-> id, Result |-> result, Error |-> error]

ErrorResponse(id, code, message) ==
    JSONRPCResponse(id, NoResult, JSONRPCError(code, message))

\* dispatch's nil *JSONRPCResponse
NilResponse == [nil |-> TRUE]

(* ------------------------------------------------------------------ *)
(* structpb values (the backend's structured value model)               *)
(* ------------------------------------------------------------------ *)

\* A nil *structpb.Value.
PNil == [pk |-> "nil"]
PNull == [pk |-> "NullValue"]
PNumber(n) == [pk |-> "NumberValue", n |-> n]
\* A NumberValue holding a float64 that JSON cannot spell: f is "NaN",
\* "+Inf" or "-Inf".
PNonFinite(f) == [pk |-> "NumberValue", f |-> f]
PString(s) == [pk |-> "StringValue", s |-> s]
PBool(b) == [pk |-> "BoolValue", b |-> b]
PStruct(st) == [pk |-> "StructValue", st |-> st]
PList(lv) == [pk |-> "ListValue", lv |-> lv]

\* *structpb.Struct, nil or allocated, and an allocated *structpb.ListValue.
NilStruct == [st |-> "nil"]
Struct(fields) == [st |-> "struct", fields |-> fields]
ListValue(values) == [lv |-> "list", values |-> values]

\* Struct.GetFields(): a nil receiver has no fields.
GetFields(s) == IF s.st = "nil" THEN NoFields ELSE s.fields

\* A float64 that is NaN, +Inf or -Inf.
GoNonFinite(f) == [g |-> "float64", f |-> f]

\* StructToMap and valueToInterface
RECURSIVE StructToMap(_), valueToInterface(_), valueToInterface_DropsBool(_)
\* Variant of StructToMap that makes an empty map of a nil Struct.
StructToMap_EmptyForNil(s) ==
    IF s.st = "nil" THEN GoMap(NoFields)
    ELSE GoMap([key \in DOMAIN s.fields |-> valueToInterface(s.fields[key])])

StructToMap(s) ==
    IF s.st = "nil" THEN GoNilMap
    ELSE GoMap([key \in DOMAIN s.fields |-> valueToInterface(s.fields[key])])

\* Variant of valueToInterface that reads a BoolValue as nil.
valueToInterface_DropsBool(v) ==
    CASE v.pk = "nil"         -> GoNil
      [] v.pk = "NullValue"   -> GoNil
      [] v.pk = "NumberValue" -> IF "f" \in DOMAIN v THEN GoNonFinite(v.f) ELSE GoFloat(v.n)
      [] v.pk = "StringValue" -> GoString(v.s)
      [] v.pk = "BoolValue"   -> GoNil
      [] v.pk = "StructValue" -> StructToMap(v.st)
      [] v.pk = "ListValue"   ->
            IF v.lv.lv = "nil" THEN GoNil
            ELSE GoSlice([i \in DOMAIN v.lv.values |->
                             valueToInterface_DropsBool(v.lv.values[i])])
      [] OTHER                -> GoNil

valueToInterface(v) ==
    CASE v.pk = "nil"         -> GoNil
      [] v.pk = "NullValue"   -> GoNil
      [] v.pk = "NumberValue" -> IF "f" \in DOMAIN v THEN GoNonFinite(v.f) ELSE GoFloat(v.n)
      [] v.pk = "StringValue" -> GoString(v.s)
      [] v.pk = "BoolValue"   -> GoBool(v.b)
      [] v.pk = "StructValue" -> StructToMap(v.st)
      [] v.pk = "ListValue"   ->
            IF v.lv.lv = "nil" THEN GoNil
            ELSE GoSlice([i \in DOMAIN v.lv.values |-> valueToInterface(v.lv.values[i])])
      [] OTHER                -> GoNil

\* Variant of NewValue that leaves out the keys of a map whose value is nil.
RECURSIVE NewValue_DropsNull(_)
NewValue_DropsNull(v) ==
    CASE v.g = "nil"     -> [err |-> "", v |-> PNull]
      [] v.g = "bool"    -> [err |-> "", v |-> PBool(v.b)]
      [] v.g = "float64" -> [err |-> "", v |-> IF "f" \in DOMAIN v THEN PNonFinite(v.f) ELSE PNumber(v.n)]
      [] v.g = "string"  -> [err |-> "", v |-> PString(v.s)]
      [] v.g = "nilmap"  -> [err |-> "", v |-> PStruct(Struct(NoFields))]
      [] v.g = "map"     ->
            LET keys == {key \in DOMAIN v.m : v.m[key] # GoNil}
            IN [err |-> "",
                v |-> PStruct(Struct([key \in keys |-> NewValue_DropsNull(v.m[key]).v]))]
      [] v.g = "slice"   ->
            [err |-> "",
             v |-> PList(ListValue([i \in DOMAIN v.l |-> NewValue_DropsNull(v.l[i]).v]))]
      [] OTHER           -> [err |-> "proto: invalid type: chan int", v |-> PNil]

\* structpb.NewValue / NewStruct / NewList: [err, v]; err = "" on success.
RECURSIVE NewValue(_)
NewValue(v) ==
    CASE v.g = "nil"     -> [err |-> "", v |-> PNull]
      [] v.g = "bool"    -> [err |-> "", v |-> PBool(v.b)]
      [] v.g = "float64" -> [err |-> "", v |-> IF "f" \in DOMAIN v THEN PNonFinite(v.f) ELSE PNumber(v.n)]
      [] v.g = "string"  -> [err |-> "", v |-> PString(v.s)]
      [] v.g = "nilmap"  -> [err |-> "", v |-> PStruct(Struct(NoFields))]
      [] v.g = "map"     ->
            LET sub == [key \in DOMAIN v.m |-> NewValue(v.m[key])]
                bad == {key \in DOMAIN v.m : sub[key].err # ""}
            IN IF bad # {}
               THEN [err |-> sub[CHOOSE key \in bad : TRUE].err, v |-> PNil]
               ELSE [err |-> "", v |-> PStruct(Struct([key \in DOMAIN v.m |-> sub[key].v]))]
      [] v.g = "slice"   ->
            LET sub == [i \in DOMAIN v.l |-> NewValue(v.l[i])]
                bad == {i \in DOMAIN v.l : sub[i].err # ""}
            IN IF bad # {}
               THEN [err |-> sub[CHOOSE i \in bad : TRUE].err, v |-> PNil]
               ELSE [err |-> "", v |-> PList(ListValue([i \in DOMAIN v.l |-> sub[i].v]))]
      [] OTHER           -> [err |-> "proto: invalid type: chan int", v |-> PNil]

\* structpb.NewStruct(m): [err, s]. A nil map gives an allocated, empty Struct.
NewStruct(m) ==
    LET r == NewValue(m)
    IN IF r.err # "" THEN [err |-> r.err, s |-> NilStruct]
       ELSE [err |-> "", s |-> r.v.st]

\* MapToStruct
MapToStruct(m) == NewStruct(m)

(* ------------------------------------------------------------------ *)
(* Backend messages and their rendering as MCP results                  *)
(* ------------------------------------------------------------------ *)

ToolDefinition(name, description, schema) ==
    [Name |-> name, Description |-> description, InputSchema |-> schema]

ToolResponse(success, result, code, message) ==
    [Success |-> success, Result |-> result, ErrorCode |-> code, ErrorMessage |-> message]

\* Variant of ToolDefinitionToMCP that leaves the description empty.
ToolDefinitionToMCP_NoDescription(td) ==
    [Name |-> td.Name,
     Description |-> "",
     InputSchema |-> IF td.InputSchema.st # "nil" THEN StructToMap(td.InputSchema) ELSE GoNil]

\* ToolDefinitionToMCP
ToolDefinitionToMCP(td) ==
    [Name |-> td.Name,
     Description |-> td.Description,
     InputSchema |-> IF td.InputSchema.st # "nil" THEN StructToMap(td.InputSchema) ELSE GoNil]

\* Value.GetStringValue(): the string of a StringValue, "" for any other kind.
GetStringValue(v) == IF v.pk = "StringValue" THEN v.s ELSE ""

\* Variant of extractResultText whose fallback is fmt's rendering of the map.
extractResultText_Formats(s) ==
    IF s.st = "nil" THEN ""
    ELSE IF "text" \in DOMAIN GetFields(s) THEN GetStringValue(GetFields(s)["text"])
    ELSE FormatV(StructToMap(s))

\* Variant of extractResultText that takes the text field only when it is
\* a string and serializes the result otherwise.
extractResultText_StringOnly(s) ==
    IF s.st = "nil" THEN ""
    ELSE IF "text" \in DOMAIN GetFields(s) /\ GetFields(s)["text"].pk = "StringValue"
    THEN GetFields(s)["text"].s
    ELSE LET m == StructToMap(s)
         IN IF Unencodable(m) THEN FormatV(m) ELSE EncodeGo(m)

\* extractResultText
extractResultText(s) ==
    IF s.st = "nil" THEN ""
    ELSE IF "text" \in DOMAIN GetFields(s) THEN GetStringValue(GetFields(s)["text"])
    ELSE LET m == StructToMap(s)
         IN IF Unencodable(m) THEN FormatV(m) ELSE EncodeGo(m)

MCPContent(type, text) == [Type |-> type, Text |-> text]

MCPToolResult(content, isError) ==
    [r |-> "MCPToolResult", Content |-> content, IsError |-> isError]

\* Variants of ToolResponseToMCP: one that does not flag a failed call, one
\* that always reports the error code, one that renders an absent result
\* as no content at all.
ToolResponseToMCP_NotError(resp) ==
    IF ~resp.Success
    THEN LET errMsg == IF resp.ErrorMessage = ""
                       THEN "tool error: " \o resp.ErrorCode
                       ELSE resp.ErrorMessage
         IN MCPToolResult(<<MCPContent("text", errMsg)>>, FALSE)
    ELSE MCPToolResult(<<MCPContent("text", extractResultText(resp.Result))>>, FALSE)

ToolResponseToMCP_CodeOnly(resp) ==
    IF ~resp.Success
    THEN MCPToolResult(<<MCPContent("text", "tool error: " \o resp.ErrorCode)>>, TRUE)
    ELSE MCPToolResult(<<MCPContent("text", extractResultText(resp.Result))>>, FALSE)

ToolResponseToMCP_NoContent(resp) ==
    IF ~resp.Success
    THEN LET errMsg == IF resp.ErrorMessage = ""
                       THEN "tool error: " \o resp.ErrorCode
                       ELSE resp.ErrorMessage
         IN MCPToolResult(<<MCPContent("text", errMsg)>>, TRUE)
    ELSE IF resp.Result.st = "nil" THEN MCPToolResult(<<>>, FALSE)
    ELSE MCPToolResult(<<MCPContent("text", extractResultText(resp.Result))>>, FALSE)

\* ToolResponseToMCP
ToolResponseToMCP(resp) ==
    IF ~resp.Success
    THEN LET errMsg == IF resp.ErrorMessage = ""
                       THEN "tool error: " \o resp.ErrorCode
                       ELSE resp.ErrorMessage
         IN MCPToolResult(<<MCPContent("text", errMsg)>>, TRUE)
    ELSE MCPToolResult(<<MCPContent("text", extractResultText(resp.Result))>>, FALSE)

PromptArgument(name, description, required) ==
    [Name |-> name, Description |-> description, Required |-> required]

PromptDefinition(name, description, arguments) ==
    [Name |-> name, Description |-> description, Arguments |-> arguments]

\* PromptDefinitionToMCP
PromptDefinitionToMCP(pd) ==
    [Name |-> pd.Name,
     Description |-> pd.Description,
     Arguments |-> [i \in DOMAIN pd.Arguments |->
                      [Name |-> pd.Arguments[i].Name,
                       Description |-> pd.Arguments[i].Description,
                       Required |-> pd.Arguments[i].Required]]]

\* A PromptMessage's content: nil, or a ContentBlock.
NilContent == [c |-> "nil"]
ContentBlock(type, text) == [c |-> "block", Type |-> type, Text |-> text]
PromptMessage(role, content) == [Role |-> role, Content |-> content]
PromptGetResponse(description, messages) ==
    [Description |-> description, Messages |-> messages]

\* PromptGetResponseToMCP
PromptGetResponseToMCP(resp) ==
    [r |-> "MCPPromptResult",
     Description |-> resp.Description,
     Messages |-> [i \in DOMAIN resp.Messages |->
                     [Role |-> resp.Messages[i].Role,
                      Content |-> IF resp.Messages[i].Content.c # "nil"
                                  THEN MCPContent(resp.Messages[i].Content.Type,
                                                  resp.Messages[i].Content.Text)
                                  ELSE MCPContent("", "")]]]

(* ------------------------------------------------------------------ *)
(* The backend transport (Sender)                                       *)
(* ------------------------------------------------------------------ *)

\* *pluginv1.PluginResponse: nil, with no payload set, or with one payload.
NilPluginResponse == [resp |-> "nil"]
EmptyPluginResponse == [resp |-> "none"]
ListToolsResponse(tools) == [resp |-> "ListTools", Tools |-> tools]
ToolCallResponse(tc) == [resp |-> "ToolCall", tc |-> tc]
ListPromptsResponse(prompts) == [resp |-> "ListPrompts", Prompts |-> prompts]
PromptGetReply(pg) == [resp |-> "PromptGet", pg |-> pg]

\* What one Send call returns: (nil, err) or (resp, nil).
SendFailed(text) == [failed |-> TRUE, err |-> text, resp |-> NilPluginResponse]
SendReturned(resp) == [failed |-> FALSE, err |-> "", resp |-> resp]

\* The requests handed to Send.
NoRequest == [req |-> "none"]
ListToolsRequest(id) == [req |-> "ListTools", RequestId |-> id]
\* Variant of ToolRequest that leaves the caller's name out.
ToolRequest_Anonymous(id, name, args, caller) ==
    [req |-> "ToolCall", RequestId |-> id, ToolName |-> name,
     Arguments |-> args, CallerPlugin |-> ""]

ToolRequest(id, name, args, caller) ==
    [req |-> "ToolCall", RequestId |-> id, ToolName |-> name,
     Arguments |-> args, CallerPlugin |-> caller]
ListPromptsRequest(id) == [req |-> "ListPrompts", RequestId |-> id]
PromptGetRequest(id, name, args) ==
    [req |-> "PromptGet", RequestId |-> id, PromptName |-> name, Arguments |-> args]

(* ------------------------------------------------------------------ *)
(* Handlers                                                             *)
(* ------------------------------------------------------------------ *)

\* Variant of handleInitialize that refuses a request without params.
handleInitialize_NeedsParams(req) ==
    IF req.Params = NilRaw
    THEN ErrorResponse(req.ID, InvalidParams, "missing params")
    ELSE JSONRPCResponse(req.ID,
             [r |-> "MCPInitializeResult",
              ProtocolVersion |-> "2024-11-05",
              Capabilities |-> [Tools |-> TRUE, Prompts |-> TRUE],
              ServerInfo |-> [Name |-> "orchestra", Version |-> "1.0.0"]],
             NoError)

\* handleInitialize
handleInitialize(req) ==
    JSONRPCResponse(req.ID,
        [r |-> "MCPInitializeResult",
         ProtocolVersion |-> "2024-11-05",
         Capabilities |-> [Tools |-> TRUE, Prompts |-> TRUE],
         ServerInfo |-> [Name |-> "orchestra", Version |-> "1.0.0"]],
        NoError)

\* Variant of handlePing that returns a nil result.
handlePing_NilResult(req) == JSONRPCResponse(req.ID, NoResult, NoError)

\* handlePing
handlePing(req) ==
    JSONRPCResponse(req.ID, [r |-> "map", m |-> GoMap(NoFields)], NoError)

\* Variant of UnexpectedResponse that answers with an empty result.
UnexpectedResponse_Success(req) ==
    JSONRPCResponse(req.ID, [r |-> "map", m |-> GoMap(NoFields)], NoError)

UnexpectedResponse(req) ==
    ErrorResponse(req.ID, InternalError, "unexpected response type from orchestrator")

\* The request handleToolsList hands to Send.
toolsListRequest(req) == ListToolsRequest("stdio-lt-" \o FormatV(req.ID))

\* Variant of handleToolsList whose failure message leaves out the cause.
handleToolsList_HidesFailure(req, out) ==
    IF out.failed
    THEN ErrorResponse(req.ID, InternalError, "orchestrator list_tools failed")
    ELSE IF out.resp.resp # "ListTools" THEN UnexpectedResponse(req)
    ELSE JSONRPCResponse(req.ID,
            [r |-> "toolsListResult",
             Tools |-> [i \in DOMAIN out.resp.Tools |->
                          ToolDefinitionToMCP(out.resp.Tools[i])]],
            NoError)

\* handleToolsList, given what its Send call returns.
handleToolsList(req, out) ==
    IF out.failed
    THEN ErrorResponse(req.ID, InternalError,
                       "orchestrator list_tools failed: " \o out.err)
    ELSE IF out.resp.resp # "ListTools" THEN UnexpectedResponse(req)
    ELSE JSONRPCResponse(req.ID,
            [r |-> "toolsListResult",
             Tools |-> [i \in DOMAIN out.resp.Tools |->
                          ToolDefinitionToMCP(out.resp.Tools[i])]],
            NoError)

\* json.Unmarshal(req.Params, &params) for toolCallParams and, with
\* strings == TRUE, for promptGetParams (Arguments map[string]string):
\* [err, Name, Arguments], err = "" when it succeeds. The members are decoded
\* in the order of the text, each into the field its key names. A null sets
\* the map to nil, an object adds its members to the map the field holds
\* (a new one when it holds none), any other kind is a type error and leaves
\* the field as it is; in a map of strings a value that is no string is a
\* type error too and leaves "" under its key. The error is that of the
\* first value of the wrong kind.
UnmarshalParams(raw, type, strings) ==
    IF raw.v.k = "null" THEN [err |-> "", Name |-> "", Arguments |-> GoNilMap]
    ELSE IF raw.v.k # "obj"
    THEN [err |-> "json: cannot unmarshal " \o JSONKindName(raw.v)
                  \o " into Go value of type internal." \o type,
          Name |-> "", Arguments |-> GoNilMap]
    ELSE LET o == raw.v.o
             order == MembersOf(raw.v)
             Elements(val) ==
                 IF strings
                 THEN [key \in DOMAIN val.o |->
                          IF val.o[key].k = "str" THEN GoString(val.o[key].s)
                          ELSE GoString("")]
                 ELSE JSONToGo(val).m
             BadValues(val) ==
                 LET BadValue(key) == val.o[key].k \notin {"null", "str"}
                 IN IF strings THEN SelectSeq(MembersOf(val), BadValue) ELSE <<>>
             ArgumentsError(val) ==
                 IF val.k = "null" THEN ""
                 ELSE IF val.k # "obj"
                 THEN "json: cannot unmarshal " \o JSONKindName(val)
                      \o " into Go struct field " \o type \o ".arguments of type "
                      \o (IF strings THEN "map[string]string" ELSE "map[string]interface {}")
                 ELSE IF BadValues(val) # <<>>
                 THEN "json: cannot unmarshal " \o JSONKindName(val.o[Head(BadValues(val))])
                      \o " into Go struct field " \o type \o ".arguments of type string"
                 ELSE ""
             Arguments(old, val) ==
                 IF val.k = "null" THEN GoNilMap
                 ELSE IF val.k = "obj"
                 THEN GoMap(Elements(val) @@ (IF old.g = "map" THEN old.m ELSE NoFields))
                 ELSE old
             Member(acc, key) ==
                 LET field == FieldNamed(key, {"name", "arguments"})
                     str(old) == StringMember(o[key], old, type \o ".name")
                 IN CASE field = "name" ->
                            [acc EXCEPT !.err = IF @ = "" THEN str("").err ELSE @,
                                        !.Name = str(@).s]
                      [] field = "arguments" ->
                            [acc EXCEPT !.err = IF @ = "" THEN ArgumentsError(o[key]) ELSE @,
                                        !.Arguments = Arguments(@, o[key])]
                      [] OTHER -> acc
             RECURSIVE Decoded(_)
             Decoded(n) ==
                 IF n = 0 THEN [err |-> "", Name |-> "", Arguments |-> GoNilMap]
                 ELSE Member(Decoded(n - 1), order[n])
         IN Decoded(Len(order))

\* The zero value of the params struct, kept when req.Params is nil.
ZeroParams == [err |-> "", Name |-> "", Arguments |-> GoNilMap]

\* handleToolsCall's and handlePromptsGet's decoding of req.Params.
toolCallParams(req) ==
    IF req.Params.p # "nil"
    THEN UnmarshalParams(req.Params, "toolCallParams", FALSE)
    ELSE ZeroParams

promptGetParams(req) ==
    IF req.Params.p # "nil"
    THEN UnmarshalParams(req.Params, "promptGetParams", TRUE)
    ELSE ZeroParams

\* handleToolsCall's conversion of the arguments map to a Struct.
toolCallArguments(params) ==
    IF params.Arguments.g # "nilmap"
    THEN NewStruct(params.Arguments)
    ELSE [err |-> "", s |-> NilStruct]

\* Variant of InvalidParamsResponse with the InternalError code.
InvalidParamsResponse_Internal(req, err) ==
    ErrorResponse(req.ID, InternalError, "invalid params: " \o err)

InvalidParamsResponse(req, err) ==
    ErrorResponse(req.ID, InvalidParams, "invalid params: " \o err)

\* Variant of MissingName that drops the request's id.
MissingName_NilId(req) ==
    ErrorResponse(GoNil, InvalidParams, "missing required parameter: name")

MissingName(req) ==
    ErrorResponse(req.ID, InvalidParams, "missing required parameter: name")

\* Variant of toolsCallRequest that calls Send before the name is checked.
toolsCallRequest_Unchecked(req) ==
    LET params == toolCallParams(req)
        args == toolCallArguments(params)
    IN IF params.err # "" THEN NoRequest
       ELSE ToolRequest("stdio-tc-" \o FormatV(req.ID), params.Name,
                        args.s, "transport.stdio")

\* The request handleToolsCall hands to Send, NoRequest when it returns
\* before its Send call.
toolsCallRequest(req) ==
    LET params == toolCallParams(req)
        args == toolCallArguments(params)
    IN IF params.err # "" THEN NoRequest
       ELSE IF params.Name = "" THEN NoRequest
       ELSE IF args.err # "" THEN NoRequest
       ELSE ToolRequest("stdio-tc-" \o FormatV(req.ID), params.Name,
                        args.s, "transport.stdio")

\* handleToolsCall, given what its Send call (if it makes one) returns.
handleToolsCall(req, out) ==
    LET params == toolCallParams(req)
        args == toolCallArguments(params)
    IN IF params.err # "" THEN InvalidParamsResponse(req, params.err)
       ELSE IF params.Name = "" THEN MissingName(req)
       ELSE IF args.err # ""
       THEN ErrorResponse(req.ID, InvalidParams, "invalid arguments: " \o args.err)
       ELSE IF out.failed
       THEN ErrorResponse(req.ID, InternalError,
                          "orchestrator tool_call failed: " \o out.err)
       ELSE IF out.resp.resp # "ToolCall" THEN UnexpectedResponse(req)
       ELSE JSONRPCResponse(req.ID, ToolResponseToMCP(out.resp.tc), NoError)

\* The request handlePromptsList hands to Send.
promptsListRequest(req) == ListPromptsRequest("stdio-lp-" \o FormatV(req.ID))

\* handlePromptsList, given what its Send call returns.
handlePromptsList(req, out) ==
    IF out.failed
    THEN ErrorResponse(req.ID, InternalError,
                       "orchestrator list_prompts failed: " \o out.err)
    ELSE IF out.resp.resp # "ListPrompts" THEN UnexpectedResponse(req)
    ELSE JSONRPCResponse(req.ID,
            [r |-> "promptsListResult",
             Prompts |-> [i \in DOMAIN out.resp.Prompts |->
                            PromptDefinitionToMCP(out.resp.Prompts[i])]],
            NoError)

\* The request handlePromptsGet hands to Send, NoRequest when it returns
\* before its Send call.
promptsGetRequest(req) ==
    LET params == promptGetParams(req)
    IN IF params.err # "" THEN NoRequest
       ELSE IF params.Name = "" THEN NoRequest
       ELSE PromptGetRequest("stdio-pg-" \o FormatV(req.ID), params.Name,
                             params.Arguments)

\* handlePromptsGet, given what its Send call (if it makes one) returns.
handlePromptsGet(req, out) ==
    LET params == promptGetParams(req)
    IN IF params.err # "" THEN InvalidParamsResponse(req, params.err)
       ELSE IF params.Name = "" THEN MissingName(req)
       ELSE IF out.failed
       THEN ErrorResponse(req.ID, InternalError,
                          "orchestrator prompt_get failed: " \o out.err)
       ELSE IF out.resp.resp # "PromptGet" THEN UnexpectedResponse(req)
       ELSE JSONRPCResponse(req.ID, PromptGetResponseToMCP(out.resp.pg), NoError)

(* ------------------------------------------------------------------ *)
(* Dispatch                                                             *)
(* ------------------------------------------------------------------ *)

\* Variants of dispatchDefault: one that answers notifications too, one that
\* takes a request without id (not the method prefix) for a notification,
\* one whose message leaves out the method.
dispatchDefault_AnswersAll(req) ==
    ErrorResponse(req.ID, MethodNotFound, "method not found: " \o req.Method)

dispatchDefault_ById(req) ==
    IF req.ID = GoNil THEN NilResponse
    ELSE ErrorResponse(req.ID, MethodNotFound, "method not found: " \o req.Method)

dispatchDefault_NoName(req) ==
    IF HasPrefix(req.Method, "notifications/") THEN NilResponse
    ELSE ErrorResponse(req.ID, MethodNotFound, "method not found")

\* dispatch's default case: a notification gets no response, any other
\* method is not found.
\* Variant of dispatchDefault that refuses an empty method name as an
\* invalid request.
dispatchDefault_InvalidRequest(req) ==
    IF HasPrefix(req.Method, "notifications/") THEN NilResponse
    ELSE IF req.Method = "" THEN ErrorResponse(req.ID, InvalidRequest, "invalid request")
    ELSE ErrorResponse(req.ID, MethodNotFound, "method not found: " \o req.Method)

dispatchDefault(req) ==
    IF HasPrefix(req.Method, "notifications/") THEN NilResponse
    ELSE ErrorResponse(req.ID, MethodNotFound, "method not found: " \o req.Method)

\* The request the handler dispatch routes req to hands to Send, NoRequest
\* when that handler returns without calling the backend.
dispatchRequest(req) ==
    CASE req.Method = "tools/list"   -> toolsListRequest(req)
      [] req.Method = "tools/call"   -> toolsCallRequest(req)
      [] req.Method = "prompts/list" -> promptsListRequest(req)
      [] req.Method = "prompts/get"  -> promptsGetRequest(req)
      [] OTHER                       -> NoRequest

\* Variant of dispatch that gives no response to a request without id when
\* its handler makes no backend call.
dispatch_SilentWithoutId(req, out) ==
    IF req.ID = GoNil /\ dispatchRequest(req) = NoRequest THEN NilResponse
    ELSE CASE req.Method = "initialize"   -> handleInitialize(req)
           [] req.Method = "ping"         -> handlePing(req)
           [] req.Method = "tools/list"   -> handleToolsList(req, out)
           [] req.Method = "tools/call"   -> handleToolsCall(req, out)
           [] req.Method = "prompts/list" -> handlePromptsList(req, out)
           [] req.Method = "prompts/get"  -> handlePromptsGet(req, out)
           [] OTHER                       -> dispatchDefault(req)

\* dispatch, given what the handler's Send call (if it makes one) returns.
dispatch(req, out) ==
    CASE req.Method = "initialize"   -> handleInitialize(req)
      [] req.Method = "ping"         -> handlePing(req)
      [] req.Method = "tools/list"   -> handleToolsList(req, out)
      [] req.Method = "tools/call"   -> handleToolsCall(req, out)
      [] req.Method = "prompts/list" -> handlePromptsList(req, out)
      [] req.Method = "prompts/get"  -> handlePromptsGet(req, out)
      [] OTHER                       -> dispatchDefault(req)

\* Stands for the result of a Send call that is never made.
NoOutcome == [failed |-> TRUE, err |-> "", resp |-> NilPluginResponse]

\* One Send call: the input line it was made for, the request handed to the
\* backend and, once the call has returned, what it returned.
SendCall(line, send) ==
    [line |-> line, req |-> send, returned |-> FALSE, out |-> NoOutcome]

SendResult(call, out) == [call EXCEPT !.returned = TRUE, !.out = out]

(* ------------------------------------------------------------------ *)
(* Writing a response                                                   *)
(* ------------------------------------------------------------------ *)

\* json.Marshal of a native value back into JSON (the response's id).
RECURSIVE GoToJSON(_)
GoToJSON(v) ==
    CASE v.g = "nil"     -> JNull
      [] v.g = "float64" -> JNum(v.n)
      [] v.g = "string"  -> JStr(v.s)
      [] v.g = "bool"    -> JBool(v.b)
      [] v.g = "slice"   -> JList([i \in DOMAIN v.l |-> GoToJSON(v.l[i])])
      [] v.g = "map"     -> JObj([key \in DOMAIN v.m |-> GoToJSON(v.m[key])])
      [] OTHER           -> JNull

\* Whether json.Marshal(resp) fails: a tool's input schema holds a number
\* that JSON cannot spell.
ResponseUnencodable(resp) ==
    /\ resp.Result.r = "toolsListResult"
    /\ \E i \in DOMAIN resp.Result.Tools : Unencodable(resp.Result.Tools[i].InputSchema)

\* The error of a json.Marshal(resp) that fails, as writeResponse wraps it:
\* the tools are encoded in their order.
MarshalError(resp) ==
    "marshal response: json: unsupported value: "
    \o UnsupportedValue(GoSlice([i \in DOMAIN resp.Result.Tools |->
                                    resp.Result.Tools[i].InputSchema]))

\* The line json.Marshal(resp) spells: a member is written only when its
\* field is not nil.
MarshalResponse(resp) ==
    ("jsonrpc" :> JStr(resp.JSONRPC)) @@ ("id" :> GoToJSON(resp.ID))
    @@ (IF resp.Result.r # "nil" THEN "result" :> resp.Result ELSE NoFields)
    @@ (IF resp.Error.e # "nil" THEN "error" :> resp.Error ELSE NoFields)

\* The bytes a failed Write call left at the end of the output, behind the
\* last line: nothing, or a part (up to the whole) of the line it was given.
NoFragment == [left |-> "none"]
Fragment(data) == [left |-> "some", of |-> data]

\* Variant of writeResponse that leaves the start of a line in the output
\* when json.Marshal fails.
writeResponse_PartialOnFailure(resp, out, writer) ==
    IF ResponseUnencodable(resp)
    THEN [err |-> MarshalError(resp),
          out |-> out,
          torn |-> Fragment("jsonrpc" :> JStr(resp.JSONRPC))]
    ELSE IF writer = "nil"
    THEN [err |-> "", out |-> Append(out, MarshalResponse(resp)), torn |-> NoFragment]
    ELSE [err |-> "io: read/write on closed pipe",
          out |-> out,
          torn |-> IF writer = "none" THEN NoFragment
                   ELSE Fragment(MarshalResponse(resp))]

\* writeResponse(resp) on the output `out`, given what the one
\* t.writer.Write(data) call does: "nil" when it takes the line and returns
\* nil, "none" when it returns an error after it has taken none of the
\* line's bytes, "some" when it returns an error after it has taken some of
\* them, from the first byte up to all (the count it returns is discarded).
\* [err, out, torn], err = "" when the line was written. Nothing reaches the
\* writer when json.Marshal fails.
writeResponse(resp, out, writer) ==
    IF ResponseUnencodable(resp)
    THEN [err |-> MarshalError(resp),
          out |-> out, torn |-> NoFragment]
    ELSE IF writer = "nil"
    THEN [err |-> "", out |-> Append(out, MarshalResponse(resp)), torn |-> NoFragment]
    ELSE [err |-> "io: read/write on closed pipe",
          out |-> out,
          torn |-> IF writer = "none" THEN NoFragment
                   ELSE Fragment(MarshalResponse(resp))]

(* ------------------------------------------------------------------ *)
(* Inputs of the model: input lines and backend replies                 *)
(* ------------------------------------------------------------------ *)

\* A line spelling the JSON-RPC envelope with the given members.
Envelope(members) == Line(64, FALSE, Json(JObj(members)))
V2 == "jsonrpc" :> JStr("2.0")

LBlank == Line(0, FALSE, Empty)
LSpace == Line(3, TRUE, Empty)
LBad == Line(14, FALSE, Malformed)
LInit == Envelope(V2 @@ ("id" :> JNum(1)) @@ ("method" :> JStr("initialize"))
                  @@ ("params" :> JEmptyObj))
LNotif == Envelope(V2 @@ ("method" :> JStr("notifications/initialized")))
LNotifId == Envelope(V2 @@ ("id" :> JNum(7)) @@ ("method" :> JStr("notifications/cancelled"))
                     @@ ("params" :> JList(<<JNum(1)>>)))
LPing == Envelope(V2 @@ ("id" :> JNum(2)) @@ ("method" :> JStr("ping")))
LPingNoId == Envelope(V2 @@ ("method" :> JStr("ping")))
LUnknown == Envelope(V2 @@ ("id" :> JNum(10)) @@ ("method" :> JStr("unknown/method")))
LList == Envelope(V2 @@ ("id" :> JStr("a")) @@ ("method" :> JStr("tools/list")))
LCall == Envelope(V2 @@ ("id" :> JNum(5)) @@ ("method" :> JStr("tools/call"))
                  @@ ("params" :> JObj(("name" :> JStr("echo"))
                                       @@ ("arguments" :> JObj("a" :> JNum(1))))))
LCallNoName == Envelope(V2 @@ ("id" :> JNum(6)) @@ ("method" :> JStr("tools/call"))
                        @@ ("params" :> JObj("arguments" :> JEmptyObj)))
LPromptsList == Envelope(V2 @@ ("id" :> JNum(9)) @@ ("method" :> JStr("prompts/list")))
LPromptsGet == Envelope(V2 @@ ("id" :> JNum(8)) @@ ("method" :> JStr("prompts/get"))
                        @@ ("params" :> JObj(("name" :> JStr("greet"))
                                             @@ ("arguments" :> JObj("a" :> JStr("x"))))))
\* A ping on a line as long as the scanner's buffer.
LBig == Line(maxScannerBuffer, FALSE,
             Json(JObj(V2 @@ ("id" :> JNum(3)) @@ ("method" :> JStr("ping")))))

\* White space only, as long as the scanner's buffer.
LBigBlank == Line(maxScannerBuffer, TRUE, Empty)

\* The lines the multi-line inputs are made of.
CoreLines ==
    {LBlank, LBad, LInit, LNotif, LPing, LList, LCall, LBig}

\* Further lines, fed to the loop one at a time or between a tools/call and
\* a ping.
MoreLines == {LUnknown, LSpace, LCallNoName, LNotifId, LPingNoId, LPromptsList, LPromptsGet}

\* A tools/call or prompts/get with the given id member and params member
\* (each a function with zero or one key).
CallWith(method, id, params) ==
    Envelope(V2 @@ ("method" :> JStr(method)) @@ id @@ params)

IdMembers ==
    {NoFields, "id" :> JNull, "id" :> JNum(1), "id" :> JStr("1"), "id" :> JBool(TRUE),
     "id" :> JNum(1000000), "id" :> JObj("id" :> JNum(-1234567))}

ParamsMembers ==
    {NoFields,
     "params" :> JNull,
     "params" :> JList(<<JStr("echo")>>),
     "params" :> JStr("echo"),
     "params" :> JEmptyObj,
     "params" :> JObj("name" :> JNull),
     "params" :> JObj("name" :> JStr("")),
     "params" :> JObj("name" :> JNum(5)),
     "params" :> JObj("name" :> JStr("echo")),
     "params" :> JObj(("name" :> JStr("echo")) @@ ("arguments" :> JNull)),
     "params" :> JObj(("name" :> JStr("echo")) @@ ("arguments" :> JNum(5))),
     "params" :> JObj(("name" :> JStr("echo")) @@ ("arguments" :> JEmptyObj)),
     "params" :> JObj(("name" :> JStr("echo"))
                      @@ ("arguments" :> JObj(("a" :> JNull) @@ ("b" :> JStr("x"))))),
     "params" :> JObj(("name" :> JStr("echo"))
                      @@ ("arguments" :> JObj(("a" :> JList(<<JNum(1), JBool(FALSE)>>))
                                              @@ ("b" :> JObj("count" :> JNum(2)))))),
     "params" :> JObj(("name" :> JStr("echo"))
                      @@ ("arguments" :> JObj(("a" :> JList(<<>>)) @@ ("b" :> JEmptyObj)
                                              @@ ("count" :> JNum(0)) @@ ("text" :> JBool(TRUE))
                                              @@ ("type" :> JList(<<JNull, JList(<<JStr("")>>)>>))))),
     "params" :> JObj(("name" :> JNum(5)) @@ ("arguments" :> JStr("x"))),
     "params" :> JObjIn(("name" :> JNum(5)) @@ ("arguments" :> JStr("x")),
                        <<"name", "arguments">>),
     "params" :> JObj(("name" :> JStr("greet"))
                      @@ ("arguments" :> JObjIn(("a" :> JNum(1)) @@ ("b" :> JBool(TRUE))
                                                @@ ("project_id" :> JStr("p")),
                                                <<"project_id", "b", "a">>))),
     "params" :> JObj("Name" :> JStr("echo")),
     "params" :> JObj("NAME" :> JNum(5)),
     "params" :> JObj(("name" :> JStr("echo")) @@ ("Arguments" :> JObj("a" :> JNum(1)))),
     "params" :> JObj(("nAME" :> JStr("greet")) @@ ("ARGUMENTS" :> JNull)
                      @@ ("names" :> JStr("x")))}

Methods ==
    {"initialize", "ping", "tools/list", "tools/call", "prompts/list", "prompts/get",
     "notifications/initialized", "notifications/", "notifications", "unknown/method",
     "", "Ping", "tools/call/x"}

\* Lines that decode but are not a well-formed request, lines that do not
\* decode as an envelope, and envelopes whose keys are not in lower case.
OddLines ==
    {Envelope(V2 @@ ("id" :> JNum(1)) @@ ("Method" :> JStr("ping"))),
     Envelope(V2 @@ ("ID" :> JNum(1)) @@ ("method" :> JStr("ping"))),
     Envelope(V2 @@ ("id" :> JNum(1)) @@ ("METHOD" :> JNum(5))),
     Envelope(("JsonRpc" :> JStr("2.0")) @@ ("iD" :> JStr("1")) @@ ("method" :> JStr("tools/call"))
              @@ ("Params" :> JObj("name" :> JStr("echo")))),
     Line(48, FALSE, Json(JObjIn(V2 @@ ("id" :> JNum(1)) @@ ("Id" :> JStr("x"))
                                 @@ ("method" :> JStr("tools/list")) @@ ("methods" :> JNum(5)),
                                 <<"jsonrpc", "id", "Id", "method", "methods">>))),
     Line(4, FALSE, Json(JNull)),
     Line(7, TRUE, Json(JList(<<JNum(1)>>))),
     Line(2, FALSE, Json(JNum(42))),
     Envelope(V2 @@ ("id" :> JNum(1)) @@ ("method" :> JNum(5))),
     Envelope(("jsonrpc" :> JNum(2)) @@ ("id" :> JNum(1)) @@ ("method" :> JStr("ping"))),
     Envelope(("jsonrpc" :> JNum(2)) @@ ("method" :> JBool(TRUE))),
     Line(24, FALSE, Json(JObjIn(("jsonrpc" :> JNum(2)) @@ ("method" :> JBool(TRUE)),
                                 <<"method", "jsonrpc">>))),
     Envelope(("jsonrpc" :> JStr("1.0")) @@ ("id" :> JNum(1)) @@ ("method" :> JStr("ping"))),
     Envelope(("id" :> JNum(1)) @@ ("method" :> JStr("ping"))),
     Envelope(V2 @@ ("id" :> JNum(1))),
     Envelope(V2 @@ ("id" :> JNum(1)) @@ ("method" :> JNull)),
     Line(maxScannerBuffer - 1, FALSE,
          Json(JObj(V2 @@ ("id" :> JNum(3)) @@ ("method" :> JStr("ping")))))}

\* The lines the one-line inputs are drawn from.
AllLines ==
    CoreLines \cup MoreLines \cup OddLines
    \cup {CallWith(m, id, NoFields) : m \in Methods, id \in IdMembers}
    \cup {CallWith(m, "id" :> JNum(1), "params" :> JList(<<JStr("echo")>>)) : m \in Methods}
    \cup {CallWith(m, "id" :> JNum(1), p) : m \in {"initialize", "ping"}, p \in ParamsMembers}
    \cup {CallWith(m, id, p) : m \in {"tools/call", "prompts/get"},
                               id \in {NoFields, "id" :> JStr("1")},
                               p \in ParamsMembers}

\* Backend replies.
EchoSchema ==
    Struct(("type" :> PString("object")) @@ ("count" :> PNumber(2)))
ToolsReply ==
    SendReturned(ListToolsResponse(
        <<ToolDefinition("echo", "Echo the input", EchoSchema),
          ToolDefinition("noop", "", NilStruct)>>))
TextReply ==
    SendReturned(ToolCallResponse(
        ToolResponse(TRUE, Struct("text" :> PString("done")), "", "")))
PromptsReply ==
    SendReturned(ListPromptsResponse(
        <<PromptDefinition("greet", "Greeting", <<PromptArgument("a", "who", TRUE)>>)>>))
PromptReply ==
    SendReturned(PromptGetReply(
        PromptGetResponse("Greeting",
            <<PromptMessage("user", ContentBlock("text", "hello")),
              PromptMessage("assistant", NilContent)>>)))
Refused == SendFailed("connection refused")

\* What the backend may return to a Send call in a multi-line run.
CoreOutcomes == {Refused, ToolsReply, TextReply}

\* What the backend may return to the Send call of a one-line run.
AllOutcomes ==
    CoreOutcomes
    \cup {PromptsReply, PromptReply,
          SendReturned(NilPluginResponse),
          SendReturned(EmptyPluginResponse),
          SendReturned(ListToolsResponse(<<>>)),
          SendReturned(ListToolsResponse(
              <<ToolDefinition("noop", "", NilStruct),
                ToolDefinition("all", "Every kind of value",
                    Struct(("a" :> PNull)
                           @@ ("b" :> PStruct(Struct(("count" :> PNumber(2)) @@ ("text" :> PString("x")))))
                           @@ ("count" :> PNumber(-1))
                           @@ ("text" :> PString(""))
                           @@ ("type" :> PList(ListValue(<<PBool(FALSE), PList(ListValue(<<>>)),
                                                          PStruct(Struct(NoFields))>>))))),
                ToolDefinition("echo", "Echo the input", EchoSchema)>>)),
          SendReturned(ListToolsResponse(
              <<ToolDefinition("stat", "Statistics", Struct("count" :> PNonFinite("NaN")))>>)),
          SendReturned(ListToolsResponse(
              <<ToolDefinition("stat", "Statistics", Struct("count" :> PNonFinite("+Inf")))>>)),
          SendReturned(ListToolsResponse(
              <<ToolDefinition("echo", "Echo the input", EchoSchema),
                ToolDefinition("stat", "Statistics",
                    Struct(("count" :> PNonFinite("NaN"))
                           @@ ("b" :> PList(ListValue(<<PNumber(1), PNonFinite("-Inf"),
                                                        PNonFinite("+Inf")>>))))),
                ToolDefinition("rate", "", Struct("a" :> PNonFinite("+Inf")))>>)),
          SendReturned(ToolCallResponse(
              ToolResponse(TRUE, Struct(("a" :> PNumber(1)) @@ ("b" :> PList(ListValue(<<PNull, PBool(TRUE)>>)))), "", ""))),
          SendReturned(ToolCallResponse(ToolResponse(TRUE, Struct("text" :> PNumber(7)), "", ""))),
          SendReturned(ToolCallResponse(
              ToolResponse(TRUE, Struct(("text" :> PBool(TRUE)) @@ ("a" :> PString("x"))), "", ""))),
          SendReturned(ToolCallResponse(ToolResponse(TRUE, Struct("text" :> PNull), "", ""))),
          SendReturned(ToolCallResponse(
              ToolResponse(TRUE, Struct("text" :> PList(ListValue(<<PString("done")>>))), "", ""))),
          SendReturned(ToolCallResponse(
              ToolResponse(TRUE, Struct("text" :> PStruct(Struct("text" :> PString("done")))), "", ""))),
          SendReturned(ToolCallResponse(ToolResponse(TRUE, Struct("text" :> PString("")), "", ""))),
          SendReturned(ToolCallResponse(
              ToolResponse(TRUE, Struct(("a" :> PString("abc-123"))
                                        @@ ("b" :> PStruct(Struct("count" :> PNumber(-2))))
                                        @@ ("type" :> PList(ListValue(<<>>)))), "", ""))),
          SendReturned(ToolCallResponse(
              ToolResponse(TRUE, Struct(("id" :> PString("abc-123"))
                                        @@ ("status" :> PString("created"))), "", ""))),
          SendReturned(ToolCallResponse(
              ToolResponse(TRUE, Struct(("title" :> PString("say \"hi\" <b>&"))
                                        @@ ("Path" :> PString("C:\\dir\tx"))
                                        @@ ("project_id" :> PNumber(1000000))), "", ""))),
          SendReturned(ToolCallResponse(
              ToolResponse(TRUE, Struct(("project_id" :> PNumber(1234567))
                                        @@ ("count" :> PNonFinite("NaN"))), "", ""))),
          SendReturned(ToolCallResponse(ToolResponse(TRUE, Struct(NoFields), "", ""))),
          SendReturned(ToolCallResponse(
              ToolResponse(TRUE, Struct("a" :> PNonFinite("NaN")), "", ""))),
          SendReturned(ToolCallResponse(
              ToolResponse(TRUE, Struct("a" :> PNonFinite("+Inf")), "", ""))),
          SendReturned(ToolCallResponse(
              ToolResponse(TRUE, Struct("a" :> PList(ListValue(<<PNonFinite("-Inf")>>))),
                           "", ""))),
          SendReturned(ToolCallResponse(ToolResponse(TRUE, NilStruct, "", ""))),
          SendReturned(ToolCallResponse(
              ToolResponse(FALSE, NilStruct, "validation_error", "title is required"))),
          SendReturned(ToolCallResponse(ToolResponse(FALSE, NilStruct, "validation_error", ""))),
          SendReturned(ListPromptsResponse(<<>>)),
          SendFailed("timeout: no recent network activity")}

\* All sequences over S of length at most n.
RECURSIVE SeqsUpTo(_, _)
SeqsUpTo(S, n) ==
    IF n = 0 THEN {<<>>}
    ELSE LET shorter == SeqsUpTo(S, n - 1)
         IN shorter \cup {Append(q, x) : q \in {t \in shorter : Len(t) = n - 1}, x \in S}

(* ------------------------------------------------------------------ *)
(* The run loop                                                         *)
(* ------------------------------------------------------------------ *)

VARIABLES
    input,      \* the lines of the input stream
    backend,    \* the results the backend may give to a Send call
    pos,        \* number of lines the scanner has returned
    pc,         \* where Run is: "scan", "body", "send", "write", "writeParse", "returned"
    req,        \* the request being dispatched
    resp,       \* the response about to be written
    output,     \* the lines written to the output
    torn,       \* what a Write call that failed left behind the last line
    answered,   \* for each output line, the number of the input line it answers
    sends,      \* the Send calls made: input line number, backend request, result
    cancelled,  \* ctx.Err() != nil
    ret,        \* what Run returned: "" while running, "nil", or the error text
    mu,         \* t.mu: 0 when free, else the caller of writeResponse that holds it
    callers     \* the goroutines calling writeResponse beside Run: position, response, result

vars == <<input, backend, pos, pc, req, resp, output, torn, answered, sends, cancelled,
          ret, mu, callers>>

\* The state after NewStdioTransport, for an input that is one line of
\* AllLines, up to MaxLines lines drawn from `lines`, one of these lines
\* behind an oversize line of white space, or one of the further lines
\* between a tools/call and a ping.
InitOver(lines) ==
    /\ \/ input \in SeqsUpTo(lines, MaxLines) /\ backend = CoreOutcomes
       \/ input \in {<<l>> : l \in AllLines} /\ backend = AllOutcomes
       \/ input \in {<<LBigBlank, l>> : l \in lines} /\ backend = CoreOutcomes
       \/ input \in {<<LCall, l, LPing>> : l \in MoreLines} /\ backend = CoreOutcomes
    /\ pos = 0
    /\ pc = "scan"
    /\ req = ZeroRequest
    /\ resp = NilResponse
    /\ output = <<>>
    /\ torn = NoFragment
    /\ answered = <<>>
    /\ sends = <<>>
    /\ cancelled = FALSE
    /\ ret = ""
    /\ mu = 0
    /\ callers = <<>>

Init == InitOver(CoreLines)

\* Variant of Scan that takes the last line of the input for its end.
Scan_StopsEarly ==
    /\ pc = "scan"
    /\ IF pos + 1 < Len(input) /\ input[pos + 1].size < maxScannerBuffer
       THEN pos' = pos + 1 /\ pc' = "body" /\ ret' = ret
       ELSE /\ pos' = pos
            /\ pc' = "returned"
            /\ ret' = IF pos + 1 < Len(input)
                      THEN "scanner error: bufio.Scanner: token too long"
                      ELSE "nil"
    /\ UNCHANGED <<input, backend, req, resp, output, answered, torn, sends, cancelled, mu, callers>>

\* Variant of Scan that reads the next line while the backend call of the
\* current one is still in flight.
Scan_ReadsAhead ==
    /\ pc \in {"scan", "send"}
    /\ IF pos < Len(input) /\ input[pos + 1].size < maxScannerBuffer
       THEN pos' = pos + 1 /\ pc' = "body" /\ ret' = ret
       ELSE /\ pos' = pos
            /\ pc' = "returned"
            /\ ret' = IF pos < Len(input)
                      THEN "scanner error: bufio.Scanner: token too long"
                      ELSE "nil"
    /\ UNCHANGED <<input, backend, req, resp, output, answered, torn, sends, cancelled, mu, callers>>

\* Variant of Scan after which Run reports no error for a line that does
\* not fit the scanner's buffer.
Scan_HidesFault ==
    /\ pc = "scan"
    /\ IF pos < Len(input) /\ input[pos + 1].size < maxScannerBuffer
       THEN pos' = pos + 1 /\ pc' = "body" /\ ret' = ret
       ELSE pos' = pos /\ pc' = "returned" /\ ret' = "nil"
    /\ UNCHANGED <<input, backend, req, resp, output, answered, torn, sends, cancelled, mu, callers>>

\* t.reader.Scan(): the next line, or the end of the loop at end of input or
\* at a line that does not fit the scanner's buffer.
Scan ==
    /\ pc = "scan"
    /\ IF pos < Len(input) /\ input[pos + 1].size < maxScannerBuffer
       THEN pos' = pos + 1 /\ pc' = "body" /\ ret' = ret
       ELSE /\ pos' = pos
            /\ pc' = "returned"
            /\ ret' = IF pos < Len(input)
                      THEN "scanner error: bufio.Scanner: token too long"
                      ELSE "nil"
    /\ UNCHANGED <<input, backend, req, resp, output, answered, torn, sends, cancelled, mu, callers>>

\* Variant of parseErrorResponse with the InvalidRequest code.
parseErrorResponse_InvalidRequest(err) ==
    ErrorResponse(GoNil, InvalidRequest, "parse error: " \o err)

\* Run's response to a line that does not decode.
parseErrorResponse(err) ==
    ErrorResponse(GoNil, ParseError, "parse error: " \o err)

\* Variant of Iteration that keeps the last response and writes it again
\* for the next request answered without a backend call.
Iteration_KeepsResponse ==
    LET line == TrimSpace(input[pos])
        u == UnmarshalRequest(line)
        send == dispatchRequest(u.req)
        r == dispatch(u.req, NoOutcome)
    IN /\ ret' = ret
       /\ IF line = Empty
          THEN pc' = "scan" /\ UNCHANGED <<req, resp, sends>>
          ELSE IF u.err # ""
          THEN /\ resp' = parseErrorResponse(u.err)
               /\ pc' = "writeParse"
               /\ UNCHANGED <<req, sends>>
          ELSE IF send = NoRequest
          THEN /\ req' = u.req
               /\ resp' = IF resp = NilResponse \/ r = NilResponse THEN r ELSE resp
               /\ pc' = IF r = NilResponse THEN "scan" ELSE "write"
               /\ sends' = sends
          ELSE /\ req' = u.req
               /\ sends' = Append(sends, SendCall(pos, send))
               /\ pc' = "send"
               /\ resp' = resp

\* The loop body below the ctx.Err() check: the line is skipped, answered
\* with a parse error, answered by a handler that makes no backend call, or
\* handed to a handler that calls Send.
Iteration ==
    \E u \in {UnmarshalRequest(TrimSpace(input[pos]))} :
    LET line == TrimSpace(input[pos])
        send == dispatchRequest(u.req)
        r == dispatch(u.req, NoOutcome)
    IN /\ ret' = ret
       /\ IF line = Empty
          THEN pc' = "scan" /\ UNCHANGED <<req, resp, sends>>
          ELSE IF u.err # ""
          THEN /\ resp' = parseErrorResponse(u.err)
               /\ pc' = "writeParse"
               /\ UNCHANGED <<req, sends>>
          ELSE IF send = NoRequest
          THEN /\ req' = u.req
               /\ resp' = r
               /\ pc' = IF r = NilResponse THEN "scan" ELSE "write"
               /\ sends' = sends
          ELSE /\ req' = u.req
               /\ sends' = Append(sends, SendCall(pos, send))
               /\ pc' = "send"
               /\ resp' = resp

\* Variant of Body that finds the context cancelled only after the handler
\* has made its backend call.
Body_ChecksAfterSend ==
    /\ pc = "body"
    /\ IF cancelled
       THEN LET send == dispatchRequest(UnmarshalRequest(TrimSpace(input[pos])).req)
            IN /\ pc' = "returned" /\ ret' = "context canceled"
               /\ sends' = IF send = NoRequest THEN sends
                            ELSE Append(sends, SendCall(pos, send))
               /\ UNCHANGED <<req, resp>>
       ELSE Iteration
    /\ UNCHANGED <<input, backend, pos, output, answered, torn, cancelled, mu, callers>>

\* The loop body from the ctx.Err() check to the handler's Send call or to
\* the response it returns without one.
Body ==
    /\ pc = "body"
    /\ IF cancelled
       THEN pc' = "returned" /\ ret' = "context canceled"
            /\ UNCHANGED <<req, resp, sends>>
       ELSE Iteration
    /\ UNCHANGED <<input, backend, pos, output, answered, torn, cancelled, mu, callers>>

\* Variant of SendReturns in which a cancelled context ends Run as soon as
\* the backend call returns.
SendReturns_Preempted ==
    /\ pc = "send"
    /\ IF cancelled
       THEN /\ pc' = "returned" /\ ret' = "context canceled"
            /\ UNCHANGED <<resp, sends>>
       ELSE /\ \E out \in backend :
                  /\ resp' = dispatch(req, out)
                  /\ sends' = [sends EXCEPT ![Len(sends)] = SendResult(@, out)]
            /\ pc' = "write" /\ ret' = ret
    /\ UNCHANGED <<input, backend, pos, req, output, answered, torn, cancelled, mu, callers>>

\* Variant of SendReturns that calls Send a second time when the first
\* call failed.
SendReturns_Retries ==
    /\ pc = "send"
    /\ \E out \in backend :
          IF out.failed /\ Cardinality({j \in DOMAIN sends : sends[j].line = pos}) = 1
          THEN /\ sends' = Append([sends EXCEPT ![Len(sends)] = SendResult(@, out)],
                                  SendCall(pos, sends[Len(sends)].req))
               /\ resp' = resp
               /\ pc' = "send"
          ELSE /\ resp' = dispatch(req, out)
               /\ sends' = [sends EXCEPT ![Len(sends)] = SendResult(@, out)]
               /\ pc' = "write"
    /\ UNCHANGED <<input, backend, pos, req, output, answered, torn, cancelled, ret, mu, callers>>

\* The backend's Send returns and the handler builds its response.
SendReturns ==
    /\ pc = "send"
    /\ \E out \in backend :
          /\ resp' = dispatch(req, out)
          /\ sends' = [sends EXCEPT ![Len(sends)] = SendResult(@, out)]
    /\ pc' = "write"
    /\ UNCHANGED <<input, backend, pos, req, output, answered, torn, cancelled, ret, mu, callers>>

\* Variant of Write that leaves the loop once an error response is written.
Write_StopsOnError(writer) ==
    /\ pc \in {"write", "writeParse"}
    /\ LET w == writeResponse(resp, output, writer)
       IN IF w.err = ""
          THEN /\ output' = w.out
               /\ torn' = w.torn
               /\ answered' = Append(answered, pos)
               /\ pc' = IF resp.Error = NoError THEN "scan" ELSE "returned"
               /\ ret' = IF resp.Error = NoError THEN ret ELSE "nil"
          ELSE /\ output' = w.out
               /\ torn' = w.torn
               /\ answered' = answered
               /\ pc' = "returned"
               /\ ret' = (IF pc = "writeParse" THEN "write parse error response: "
                          ELSE "write response: ") \o w.err
    /\ UNCHANGED <<input, backend, pos, req, resp, sends, cancelled, mu, callers>>

\* writeResponse and what Run does with its result.
Write(writer) ==
    /\ pc \in {"write", "writeParse"}
    /\ LET w == writeResponse(resp, output, writer)
       IN IF w.err = ""
          THEN /\ output' = w.out
               /\ torn' = w.torn
               /\ answered' = Append(answered, pos)
               /\ pc' = "scan"
               /\ ret' = ret
          ELSE /\ output' = w.out
               /\ torn' = w.torn
               /\ answered' = answered
               /\ pc' = "returned"
               /\ ret' = (IF pc = "writeParse" THEN "write parse error response: "
                          ELSE "write response: ") \o w.err
    /\ UNCHANGED <<input, backend, pos, req, resp, sends, cancelled, mu, callers>>

WriteResponse == Write("nil")

\* The output writer returns an error.
WriteFails ==
    /\ pc \in {"write", "writeParse"}
    /\ ~ResponseUnencodable(resp)
    /\ \E writer \in {"none", "some"} : Write(writer)

\* The context is cancelled (a signal arrives) while Run is running.
Cancel ==
    /\ pc # "returned"
    /\ ~cancelled
    /\ cancelled' = TRUE
    /\ UNCHANGED <<input, backend, pos, pc, req, resp, output, answered, torn, sends, ret, mu, callers>>

Next == Scan \/ Body \/ SendReturns \/ WriteResponse \/ WriteFails \/ Cancel

Spec == Init /\ [][Next]_vars

\* The run loop in an environment where the backend always returns, the
\* output writer never fails and the context is never cancelled.
LiveNext == Scan \/ Body \/ SendReturns \/ WriteResponse

\* One line for each path through the loop body.
LiveLines == {LBlank, LBad, LNotif, LPing, LCall, LCallNoName, LBig}

LiveInit == InitOver(LiveLines)

LiveSpec == LiveInit /\ [][LiveNext]_vars /\ WF_vars(LiveNext)

\* The run loop in an environment where the backend always returns and the
\* output writer never fails, while the context may be cancelled at any
\* moment (the cancellation itself is not bound to happen).
CancelNext == Scan \/ Body \/ SendReturns \/ WriteResponse \/ Cancel

CancelLines == {LBlank, LPing, LCall}

CancelInit == InitOver(CancelLines)

CancelSpec == CancelInit /\ [][CancelNext]_vars /\ WF_vars(LiveNext)

(* ------------------------------------------------------------------ *)
(* writeResponse called from several goroutines                         *)
(* ------------------------------------------------------------------ *)

\* The number of goroutines that call writeResponse on the transport.
NumCallers == 2

\* The responses they write: a result, an error, and a tools/list result
\* that json.Marshal refuses for the infinity in it.
WriterResponses ==
    {handlePing(UnmarshalRequest(TrimSpace(LPing)).req),
     parseErrorResponse("unexpected end of JSON input"),
     handleToolsList(UnmarshalRequest(TrimSpace(LList)).req,
         SendReturned(ListToolsResponse(
             <<ToolDefinition("stat", "Statistics",
                              Struct("count" :> PNonFinite("+Inf")))>>)))}

\* A transport on which Run is not running and each of the callers is about
\* to call writeResponse with a response of its own.
MutexInit ==
    /\ input = <<>> /\ backend = {}
    /\ pos = 0 /\ pc = "scan"
    /\ req = ZeroRequest /\ resp = NilResponse
    /\ output = <<>> /\ torn = NoFragment /\ answered = <<>> /\ sends = <<>>
    /\ cancelled = FALSE /\ ret = ""
    /\ mu = 0
    /\ callers \in [1..NumCallers -> [at : {"marshal"}, resp : WriterResponses, err : {""}]]

\* data, err := json.Marshal(resp), and the return when it fails.
Marshal(c) ==
    /\ callers[c].at = "marshal"
    /\ callers' = IF ResponseUnencodable(callers[c].resp)
                  THEN [callers EXCEPT ![c].at = "done",
                                       ![c].err = MarshalError(callers[c].resp)]
                  ELSE [callers EXCEPT ![c].at = "lock"]
    /\ UNCHANGED <<input, backend, pos, pc, req, resp, output, answered, torn, sends,
                   cancelled, ret, mu>>

\* Variant of Lock that does not wait for the mutex to be free.
Lock_NoWait(c) ==
    /\ callers[c].at = "lock"
    /\ mu' = c
    /\ callers' = [callers EXCEPT ![c].at = "write"]
    /\ UNCHANGED <<input, backend, pos, pc, req, resp, output, answered, torn, sends,
                   cancelled, ret>>

\* t.mu.Lock()
Lock(c) ==
    /\ callers[c].at = "lock"
    /\ mu = 0
    /\ mu' = c
    /\ callers' = [callers EXCEPT ![c].at = "write"]
    /\ UNCHANGED <<input, backend, pos, pc, req, resp, output, answered, torn, sends,
                   cancelled, ret>>

\* t.writer.Write(append(data, '\n')): the writer takes the line in two
\* pieces, the JSON text and then the newline, and returns nil.
WriterTakes(c) ==
    /\ callers[c].at \in {"write", "newline"}
    /\ IF callers[c].at = "write"
       THEN /\ output' = Append(output, [by |-> c, part |-> "json",
                                         text |-> MarshalResponse(callers[c].resp)])
            /\ callers' = [callers EXCEPT ![c].at = "newline"]
       ELSE /\ output' = Append(output, [by |-> c, part |-> "newline"])
            /\ callers' = [callers EXCEPT ![c].at = "unlock"]
    /\ UNCHANGED <<input, backend, pos, pc, req, resp, answered, torn, sends,
                   cancelled, ret, mu>>

\* t.writer.Write returns an error, before or after a part of the line
\* has been written.
WriterFails(c) ==
    /\ callers[c].at \in {"write", "newline"}
    /\ callers' = [callers EXCEPT ![c].at = "unlock",
                                  ![c].err = "io: read/write on closed pipe"]
    /\ UNCHANGED <<input, backend, pos, pc, req, resp, output, answered, torn, sends,
                   cancelled, ret, mu>>

\* The deferred t.mu.Unlock() and the return of writeResponse.
Unlock(c) ==
    /\ callers[c].at = "unlock"
    /\ mu' = 0
    /\ callers' = [callers EXCEPT ![c].at = "done"]
    /\ UNCHANGED <<input, backend, pos, pc, req, resp, output, answered, torn, sends,
                   cancelled, ret>>

MutexNext ==
    \E c \in 1..NumCallers :
        Marshal(c) \/ Lock(c) \/ WriterTakes(c) \/ WriterFails(c) \/ Unlock(c)

MutexSpec == MutexInit /\ [][MutexNext]_vars

(* ------------------------------------------------------------------ *)
(* Vocabulary of the properties                                         *)
(* ------------------------------------------------------------------ *)

Blank(line) == TrimSpace(line) = Empty

\* The line is not blank and decodes as a request envelope.
Decodes(line) == ~Blank(line) /\ UnmarshalRequest(TrimSpace(line)).err = ""

RequestOf(line) == UnmarshalRequest(TrimSpace(line)).req

\* The member of the object v that stands for `field` of the struct the
\* object is decoded into: the one whose key names the field, the last in
\* the text when several do, and NoMember when none does.
NoMember == [k |-> "none"]
MemberFor(v, field, fields) ==
    LET Naming(key) == FieldNamed(key, fields) = field
        keys == SelectSeq(MembersOf(v), Naming)
    IN IF keys = <<>> THEN NoMember ELSE v.o[keys[Len(keys)]]

\* The envelope spelled on the line has an id member, and that member
\* (null when there is none).
HasIdMember(line) ==
    /\ TrimSpace(line).b = "json"
    /\ TrimSpace(line).v.k = "obj"
    /\ MemberFor(TrimSpace(line).v, "id", {"jsonrpc", "id", "method", "params"}) # NoMember

IdMember(line) ==
    LET id == IF TrimSpace(line).b = "json" /\ TrimSpace(line).v.k = "obj"
              THEN MemberFor(TrimSpace(line).v, "id", {"jsonrpc", "id", "method", "params"})
              ELSE NoMember
    IN IF id = NoMember THEN JNull ELSE id

HandledMethods ==
    {"initialize", "ping", "tools/list", "tools/call", "prompts/list", "prompts/get"}

IsNotificationMethod(line) ==
    /\ ~Blank(line)
    /\ LET u == UnmarshalRequest(TrimSpace(line))
       IN u.err = "" /\ HasPrefix(u.req.Method, "notifications/")

\* Lines that call for a response line: every non-blank line except a
\* decodable request for a notifications/ method.
Bearing(line) == ~Blank(line) /\ ~IsNotificationMethod(line)

\* The number of input lines whose loop iteration has ended.
Completed ==
    IF pc = "scan" \/ (pc = "returned" /\ (ret = "nil" \/ HasPrefix(ret, "scanner error")))
    THEN pos
    ELSE pos - 1

\* The numbers of the response-bearing lines among the first n, ascending.
RECURSIVE BearingLines(_)
BearingLines(n) ==
    IF n = 0 THEN <<>>
    ELSE IF Bearing(input[n]) THEN Append(BearingLines(n - 1), n)
    ELSE BearingLines(n - 1)

\* The output lines that answer input line i, and the line output line k answers.
Answers(i) == {k \in DOMAIN answered : answered[k] = i}
LineOf(k) == input[answered[k]]

\* The Send calls made for input line i.
SendsFor(i) == {j \in DOMAIN sends : sends[j].line = i}

IsError(outLine, code) == HasKey(outLine, "error") /\ outLine["error"].Code = code

\* outLine is a response line the loop body may write for a bearing line:
\* the parse error, or the handler's response under some backend result.
AnswerTo(line, outLine) ==
    LET u == UnmarshalRequest(TrimSpace(line))
    IN IF u.err # ""
       THEN outLine = MarshalResponse(parseErrorResponse(u.err))
       ELSE \E o \in backend :
               LET r == dispatch(u.req, o)
               IN ~ResponseUnencodable(r) /\ outLine = MarshalResponse(r)

\* Every response-bearing line of the input has its one response line.
AllAnswered ==
    /\ answered = BearingLines(Len(input))
    /\ Len(output) = Len(answered)

\* The params struct the handler of a tools/call or prompts/get decodes.
ParamsOf(line) ==
    LET r == RequestOf(line)
    IN IF r.Method = "tools/call" THEN toolCallParams(r) ELSE promptGetParams(r)

\* A tools/call or prompts/get whose params are missing, do not decode, or
\* carry no name or an empty one.
LacksName(line) ==
    /\ ~Blank(line)
    /\ LET u == UnmarshalRequest(TrimSpace(line))
           p == IF u.req.Method = "tools/call" THEN toolCallParams(u.req)
                ELSE promptGetParams(u.req)
       IN /\ u.err = ""
          /\ u.req.Method \in {"tools/call", "prompts/get"}
          /\ (u.req.Params = NilRaw \/ p.err # "" \/ p.Name = "")

(* ------------------------------------------------------------------ *)
(* Properties                                                           *)
(* ------------------------------------------------------------------ *)

\* C1: at every moment the output is exactly the responses to the
\* response-bearing lines whose iteration has ended, one line each, in
\* arrival order; a notification contributes no line. Behind these lines
\* the output holds nothing, except that a Write call that failed and ended
\* Run may have left a part or the whole of the response to the bearing
\* line that was being answered.
C1_OutputInOrder ==
    /\ answered = BearingLines(Completed)
    /\ Len(output) = Len(answered)
    /\ \A k \in DOMAIN output : AnswerTo(LineOf(k), output[k])
    /\ torn # NoFragment =>
          /\ pc = "returned" /\ HasPrefix(ret, "write")
          /\ Bearing(input[pos]) /\ Answers(pos) = {}
          /\ AnswerTo(input[pos], torn.of)

C1_Witness ==
    /\ input = <<LInit, LNotif, LPing>>
    /\ pc = "returned" /\ ret = "nil"
    /\ Len(output) = 2
    /\ answered = <<1, 3>>

\* C2 as stated: once Run has returned (backend always returning, no write
\* failure, no cancellation) it has returned nil and every request has its
\* response line.
C2_ReturnsNilAnswered ==
    pc = "returned" => (ret = "nil" /\ AllAnswered)

\* C2 amended: with a backend that always returns, a writer that never
\* fails and no cancellation, Run terminates; and when every line fits the
\* scanner buffer and every response could be serialized, it returns nil at
\* end of input with one response line written for every bearing line.
C2_EventuallyAnswered ==
    <>(/\ pc = "returned"
       /\ ((\A i \in DOMAIN input : input[i].size < maxScannerBuffer)
            /\ ~HasPrefix(ret, "write"))
          => (ret = "nil" /\ pos = Len(input) /\ AllAnswered))

C2_Witness ==
    /\ pc = "returned" /\ ret = "nil"
    /\ Len(input) = MaxLines
    /\ Len(sends) >= 1
    /\ Len(output) >= 2
    /\ Len(output) < Len(input)

\* C3: a response to a decoded request carries the request's id, with the
\* same type and value (null when the request has none).
C3_IdEchoed ==
    \A k \in DOMAIN output :
        Decodes(LineOf(k)) => output[k]["id"] = IdMember(LineOf(k))

C3_Witness ==
    \E k \in DOMAIN output :
        /\ Decodes(LineOf(k))
        /\ IdMember(LineOf(k)) = JStr("1")
        /\ output[k]["id"] = JStr("1")
        /\ IsError(output[k], InvalidParams)

\* C4 as stated: no response line is written for a request without an id
\* member, whatever its method.
C4_NoIdNoResponse ==
    \A k \in DOMAIN output : Decodes(LineOf(k)) => HasIdMember(LineOf(k))

\* C5: no output line is written for a decoded request whose method starts
\* with notifications/, with or without an id, whatever its params.
C5_NotificationsSilent ==
    /\ \A k \in DOMAIN output : ~IsNotificationMethod(LineOf(k))
    /\ \A i \in 1..Completed : IsNotificationMethod(input[i]) => Answers(i) = {}

C5_Witness ==
    /\ pc = "scan" /\ pos >= 1
    /\ input[pos] = LNotifId
    /\ HasIdMember(input[pos])
    /\ output = <<>>

\* C6: every response line written, and every response about to be
\* written, carries exactly one of result and error.
C6_ResultXorError ==
    /\ \A k \in DOMAIN output : HasKey(output[k], "result") # HasKey(output[k], "error")
    /\ pc \in {"write", "writeParse"} => ((resp.Result = NoResult) # (resp.Error = NoError))

C6_Witness ==
    \E j, k \in DOMAIN output :
        /\ HasKey(output[j], "result") /\ ~HasKey(output[j], "error")
        /\ HasKey(output[k], "error") /\ ~HasKey(output[k], "result")
        /\ ~Decodes(LineOf(k))

\* C7: a non-blank line that does not decode gets exactly one response
\* line, with code ParseError and a null id, and causes no Send call.
C7_ParseError ==
    \A i \in 1..Completed :
        (~Blank(input[i]) /\ ~Decodes(input[i])) =>
            /\ Cardinality(Answers(i)) = 1
            /\ \A k \in Answers(i) :
                  /\ IsError(output[k], ParseError)
                  /\ ~HasKey(output[k], "result")
                  /\ output[k]["id"] = JNull
            /\ SendsFor(i) = {}

C7_Witness ==
    /\ pc = "returned" /\ ret = "nil"
    /\ Len(sends) >= 1
    /\ \E k \in DOMAIN output : LineOf(k) = LBad /\ IsError(output[k], ParseError)

\* C8: a request with an id whose method is neither handled nor prefixed
\* notifications/ gets a MethodNotFound response whose message contains
\* the method string.
C8_MethodNotFound ==
    \A i \in 1..Completed :
        LET method == RequestOf(input[i]).Method
        IN (/\ Decodes(input[i])
            /\ HasIdMember(input[i])
            /\ method \notin HandledMethods
            /\ ~HasPrefix(method, "notifications/")) =>
               /\ Cardinality(Answers(i)) = 1
               /\ \A k \in Answers(i) :
                     /\ IsError(output[k], MethodNotFound)
                     /\ Contains(output[k]["error"].Message, method)

C8_Witness ==
    \E k \in DOMAIN output :
        /\ RequestOf(LineOf(k)).Method = "unknown/method"
        /\ HasIdMember(LineOf(k))
        /\ IsError(output[k], MethodNotFound)

\* C9 as stated: a tools/call or prompts/get lacking a usable name is
\* answered with InvalidParams and a message that names the field name.
C9_MessageNamesName ==
    \A k \in DOMAIN output :
        LacksName(LineOf(k)) =>
            /\ IsError(output[k], InvalidParams)
            /\ Contains(output[k]["error"].Message, "name")

\* C9 amended: such a request is answered with exactly one InvalidParams
\* response; its message names the field name when the params are missing
\* or decode without a name, and is "invalid params: " followed by the
\* decoder's error when the params do not decode.
C9_InvalidParams ==
    \A i \in 1..Completed :
        LacksName(input[i]) =>
            /\ Cardinality(Answers(i)) = 1
            /\ \A k \in Answers(i) :
                  /\ IsError(output[k], InvalidParams)
                  /\ ~HasKey(output[k], "result")
                  /\ IF RequestOf(input[i]).Params # NilRaw /\ ParamsOf(input[i]).err # ""
                     THEN output[k]["error"].Message
                            = "invalid params: " \o ParamsOf(input[i]).err
                     ELSE Contains(output[k]["error"].Message, "name")

C9_Witness ==
    \E j, k \in DOMAIN output :
        /\ LacksName(LineOf(k))
        /\ ParamsOf(LineOf(k)).err = ""
        /\ IsError(output[k], InvalidParams)
        /\ Contains(output[k]["error"].Message, "name")
        /\ LacksName(LineOf(j))
        /\ RequestOf(LineOf(j)).Params = NilRaw
        /\ IsError(output[j], InvalidParams)

\* C10: a request answered with InvalidParams has caused no Send call:
\* validation and argument conversion come before the backend call.
C10_ValidationBeforeSend ==
    /\ \A k \in DOMAIN output :
          IsError(output[k], InvalidParams) => SendsFor(answered[k]) = {}
    /\ (pc = "write" /\ resp.Error # NoError /\ resp.Error.Code = InvalidParams)
          => SendsFor(pos) = {}

C10_Witness ==
    /\ Len(sends) >= 1
    /\ \E k \in DOMAIN output :
          /\ IsError(output[k], InvalidParams)
          /\ RequestOf(LineOf(k)).Method = "tools/call"
          /\ answered[k] > sends[1].line

\* The response envelopes written, or about to be written, for input line i.
ResponsesFor(i) ==
    {output[k] : k \in Answers(i)}
    \cup (IF pc = "write" /\ pos = i /\ ~ResponseUnencodable(resp)
          THEN {MarshalResponse(resp)} ELSE {})

\* The Send calls that have returned: with a failure, with a reply of
\* another shape than the request's, with the tool's reply.
ReturnedSends == {j \in DOMAIN sends : sends[j].returned}
FailedSends == {j \in ReturnedSends : sends[j].out.failed}
MismatchedSends ==
    {j \in ReturnedSends : ~sends[j].out.failed /\ sends[j].out.resp.resp # sends[j].req.req}
ToolReplies ==
    {j \in ReturnedSends : /\ ~sends[j].out.failed
                           /\ sends[j].req.req = "ToolCall"
                           /\ sends[j].out.resp.resp = "ToolCall"}

\* C11: when Send returns a failure, the request is answered with an
\* InternalError error envelope whose message contains the failure's text,
\* and Run does not return because of it (only a failing output writer ends
\* the iteration).
C11_SendFailureIsInternalError ==
    \A j \in FailedSends :
        /\ \A e \in ResponsesFor(sends[j].line) :
              /\ IsError(e, InternalError)
              /\ ~HasKey(e, "result")
              /\ Contains(e["error"].Message, sends[j].out.err)
        /\ (pc = "returned" /\ pos = sends[j].line /\ Completed < pos)
              => ret = "write response: io: read/write on closed pipe"

C11_Witness ==
    \E j \in FailedSends :
        /\ sends[j].out.err = "connection refused"
        /\ sends[j].req.req = "ToolCall"
        /\ \E k \in Answers(sends[j].line) :
              /\ IsError(output[k], InternalError)
              /\ Contains(output[k]["error"].Message, "connection refused")
              /\ Len(output) > k

\* C12: when Send returns a reply that does not carry the payload of the
\* request's kind (a nil reply included), the request is answered with an
\* InternalError error envelope saying "unexpected response type", never
\* with a result.
C12_UnexpectedReplyIsInternalError ==
    \A j \in MismatchedSends :
        \A e \in ResponsesFor(sends[j].line) :
            /\ IsError(e, InternalError)
            /\ ~HasKey(e, "result")
            /\ Contains(e["error"].Message, "unexpected response type")

C12_Witness ==
    /\ \E j \in MismatchedSends :
          /\ sends[j].out.resp = NilPluginResponse
          /\ sends[j].req.req = "PromptGet"
          /\ \E k \in Answers(sends[j].line) : IsError(output[k], InternalError)

\* C13: a tools/call whose reply reports success = false is answered with
\* a result whose isError is true and with no error member, whereas a
\* failed Send is answered with an error member and no result.
C13_ToolFailureIsResult ==
    /\ \A j \in ToolReplies :
          ~sends[j].out.resp.tc.Success =>
              \A e \in ResponsesFor(sends[j].line) :
                  /\ HasKey(e, "result") /\ ~HasKey(e, "error")
                  /\ e["result"].IsError = TRUE
    /\ \A j \in FailedSends :
          \A e \in ResponsesFor(sends[j].line) :
              HasKey(e, "error") /\ ~HasKey(e, "result")

C13_Witness ==
    \E j \in ToolReplies :
        /\ ~sends[j].out.resp.tc.Success
        /\ \E k \in Answers(sends[j].line) :
              /\ HasKey(output[k], "result")
              /\ output[k]["result"].IsError = TRUE

\* C15: for a tool reply with success = false the content text is the
\* reply's errorMessage when that is not empty, and "tool error: " followed
\* by its errorCode otherwise.
C15_FailureText ==
    \A j \in ToolReplies :
        LET tc == sends[j].out.resp.tc
        IN ~tc.Success =>
              \A e \in ResponsesFor(sends[j].line) :
                  /\ HasKey(e, "result")
                  /\ Len(e["result"].Content) >= 1
                  /\ e["result"].Content[1].Text =
                        (IF tc.ErrorMessage # "" THEN tc.ErrorMessage
                         ELSE "tool error: " \o tc.ErrorCode)

C15_Witness ==
    \E j \in ToolReplies :
        /\ ~sends[j].out.resp.tc.Success
        /\ sends[j].out.resp.tc.ErrorMessage = ""
        /\ \E k \in Answers(sends[j].line) :
              output[k]["result"].Content[1].Text = "tool error: validation_error"

\* C16: every tool result rendered from a tool reply, successful or not,
\* with or without a result value, has exactly one content block, of type
\* "text".
C16_OneTextBlock ==
    \A j \in ToolReplies :
        \A e \in ResponsesFor(sends[j].line) :
            /\ HasKey(e, "result")
            /\ e["result"].r = "MCPToolResult"
            /\ Len(e["result"].Content) = 1
            /\ e["result"].Content[1].Type = "text"

C16_Witness ==
    \E j \in ToolReplies :
        /\ sends[j].out.resp.tc.Success
        /\ sends[j].out.resp.tc.Result = NilStruct
        /\ \E k \in Answers(sends[j].line) :
              /\ Len(output[k]["result"].Content) = 1
              /\ output[k]["result"].Content[1].Type = "text"

\* json.Unmarshal([]byte(text), &m) with m a map[string]any, as a reader of
\* the content text does it: [err, v]. err is "" when the text spells an
\* object or null, the decoder's type error when it spells another kind of
\* value, and "json: syntax error" (standing for any *json.SyntaxError,
\* whose wording is left out) when it spells no JSON value. A number
\* that is no integer is kept as frac * 10^e with e < 0 and frac no
\* multiple of 10 (the translator's operators are defined on the integers
\* only); the sign of a zero is not kept.
UnmarshalText(t) ==
    LET Sub(i, n) == IF i >= 1 /\ i + n - 1 <= Len(t) THEN SubSeq(t, i, i + n - 1) ELSE ""
        At(i) == Sub(i, 1)
        Digits == "0123456789"
        Hex == "0123456789abcdefABCDEF"
        IsDigit(c) == \E d \in 1..10 : SubSeq(Digits, d, d) = c
        DigitValue(c) == CHOOSE d \in 0..9 : SubSeq(Digits, d + 1, d + 1) = c
        IsHex(c) == \E d \in 1..22 : SubSeq(Hex, d, d) = c
        HexValue(c) == LET d == CHOOSE h \in 1..22 : SubSeq(Hex, h, h) = c
                       IN IF d <= 16 THEN d - 1 ELSE d - 7
        \* The byte of the character at a place of Chars, and the character
        \* of a byte.
        ByteAt(i) == IF i <= 4 THEN <<9, 10, 12, 13>>[i]
                     ELSE IF i <= 68 THEN i + 27 ELSE i + 28
        CharOf(byte) == LET i == CHOOSE h \in 1..Len(Chars) : ByteAt(h) = byte
                        IN SubSeq(Chars, i, i)
        RECURSIVE Skip(_)
        Skip(i) == IF At(i) \in {" ", "\t", "\n", "\r"} THEN Skip(i + 1) ELSE i
        \* First position at or after i that holds no digit.
        DigitsEnd(i) == CHOOSE j \in i..(Len(t) + 1) :
                           /\ ~IsDigit(Sub(j, 1))
                           /\ \A h \in i..(j - 1) : IsDigit(Sub(h, 1))
        Fail == [ok |-> FALSE, v |-> GoNil, next |-> 0]
        Ok(v, next) == [ok |-> TRUE, v |-> v, next |-> next]
        RECURSIVE NatOf(_, _), Pow10(_), Float(_, _), String(_, _),
                  Value(_), Items(_, _), Members(_, _)
        NatOf(i, j) == IF j < i THEN 0 ELSE NatOf(i, j - 1) * 10 + DigitValue(Sub(j, 1))
        Pow10(n) == IF n = 0 THEN 1 ELSE 10 * Pow10(n - 1)
        \* The float64 n * 10^e.
        Float(n, e) ==
            IF n = 0 THEN GoFloat(0)
            ELSE IF e >= 0 THEN GoFloat(n * Pow10(e))
            ELSE IF n % 10 = 0 THEN Float(n \div 10, e + 1)
            ELSE [g |-> "float64", frac |-> n, e |-> e]
        \* A number that starts at i: -? (0 | [1-9][0-9]*) (.[0-9]+)? ([eE][+-]?[0-9]+)?
        Number(i) ==
            LET first == IF At(i) = "-" THEN i + 1 ELSE i
                intEnd == IF At(first) = "0" THEN first + 1 ELSE DigitsEnd(first)
                hasFrac == At(intEnd) = "."
                fracEnd == IF hasFrac THEN DigitsEnd(intEnd + 1) ELSE intEnd
                fracLen == IF hasFrac THEN fracEnd - intEnd - 1 ELSE 0
                hasExp == At(fracEnd) \in {"e", "E"}
                expFirst == IF At(fracEnd + 1) \in {"+", "-"} THEN fracEnd + 2 ELSE fracEnd + 1
                expEnd == IF hasExp THEN DigitsEnd(expFirst) ELSE fracEnd
                exp == IF ~hasExp THEN 0
                       ELSE IF At(fracEnd + 1) = "-" THEN 0 - NatOf(expFirst, expEnd - 1)
                       ELSE NatOf(expFirst, expEnd - 1)
                digits == NatOf(first, intEnd - 1) * Pow10(fracLen)
                          + (IF hasFrac THEN NatOf(intEnd + 1, fracEnd - 1) ELSE 0)
            IN IF ~IsDigit(At(first)) \/ (hasFrac /\ fracLen = 0) \/ (hasExp /\ expEnd = expFirst)
               THEN Fail
               ELSE Ok(Float(IF At(i) = "-" THEN 0 - digits ELSE digits, exp - fracLen), expEnd)
        \* The rest of a string whose opening quote stands before i.
        String(i, acc) ==
            LET c == At(i)
                e == At(i + 1)
            IN IF c = "" \/ c \in {"\t", "\n", "\f", "\r"} THEN Fail
               ELSE IF c = "\"" THEN Ok(GoString(acc), i + 1)
               ELSE IF c # "\\" THEN String(i + 1, acc \o c)
               ELSE CASE e \in {"\"", "\\", "/"} -> String(i + 2, acc \o e)
                      [] e = "b" -> String(i + 2, acc \o CharOf(8))
                      [] e = "f" -> String(i + 2, acc \o "\f")
                      [] e = "n" -> String(i + 2, acc \o "\n")
                      [] e = "r" -> String(i + 2, acc \o "\r")
                      [] e = "t" -> String(i + 2, acc \o "\t")
                      [] e = "u" /\ \A h \in 2..5 : IsHex(At(i + h)) ->
                            String(i + 6, acc \o CharOf(HexValue(At(i + 2)) * 4096
                                                        + HexValue(At(i + 3)) * 256
                                                        + HexValue(At(i + 4)) * 16
                                                        + HexValue(At(i + 5))))
                      [] OTHER -> Fail
        \* The value that starts at i, white space before it skipped.
        Value(at) ==
            LET i == Skip(at)
            IN CASE Sub(i, 4) = "null"  -> Ok(GoNil, i + 4)
                 [] Sub(i, 4) = "true"  -> Ok(GoBool(TRUE), i + 4)
                 [] Sub(i, 5) = "false" -> Ok(GoBool(FALSE), i + 5)
                 [] At(i) = "\"" -> String(i + 1, "")
                 [] At(i) = "-" \/ IsDigit(At(i)) -> Number(i)
                 [] At(i) = "[" ->
                       IF At(Skip(i + 1)) = "]" THEN Ok(GoSlice(<<>>), Skip(i + 1) + 1)
                       ELSE Items(i + 1, <<>>)
                 [] At(i) = "{" ->
                       IF At(Skip(i + 1)) = "}" THEN Ok(GoMap(NoFields), Skip(i + 1) + 1)
                       ELSE Members(i + 1, NoFields)
                 [] OTHER -> Fail
        Items(i, acc) ==
            LET r == Value(i)
                next == Skip(r.next)
            IN IF ~r.ok THEN Fail
               ELSE IF At(next) = "," THEN Items(next + 1, Append(acc, r.v))
               ELSE IF At(next) = "]" THEN Ok(GoSlice(Append(acc, r.v)), next + 1)
               ELSE Fail
        Members(i, acc) ==
            LET key == IF At(Skip(i)) = "\"" THEN String(Skip(i) + 1, "") ELSE Fail
                colon == Skip(key.next)
            IN IF ~key.ok \/ At(colon) # ":" THEN Fail
               ELSE LET r == Value(colon + 1)
                        next == Skip(r.next)
                    IN IF ~r.ok THEN Fail
                       ELSE IF At(next) = ","
                       THEN Members(next + 1, (key.v.s :> r.v) @@ acc)
                       ELSE IF At(next) = "}"
                       THEN Ok(GoMap((key.v.s :> r.v) @@ acc), next + 1)
                       ELSE Fail
        top == Value(1)
    IN IF ~top.ok \/ Skip(top.next) # Len(t) + 1
       THEN [err |-> "json: syntax error", v |-> GoNilMap]
       ELSE IF top.v.g = "map" THEN [err |-> "", v |-> top.v]
       ELSE IF top.v.g = "nil" THEN [err |-> "", v |-> GoNilMap]
       ELSE [err |-> "json: cannot unmarshal "
                     \o (CASE top.v.g = "float64" -> "number"
                           [] top.v.g = "string"  -> "string"
                           [] top.v.g = "bool"    -> "bool"
                           [] OTHER               -> "array")
                     \o " into Go value of type map[string]interface {}",
             v |-> GoNilMap]

\* The native value g holds what the structured value p holds.
RECURSIVE SameValue(_, _)
SameValue(g, p) ==
    CASE p.pk \in {"nil", "unset", "NullValue"} -> g = GoNil
      [] p.pk = "NumberValue" -> "f" \notin DOMAIN p /\ g = GoFloat(p.n)
      [] p.pk = "StringValue" -> g = GoString(p.s)
      [] p.pk = "BoolValue"   -> g = GoBool(p.b)
      [] p.pk = "StructValue" ->
            IF p.st.st = "nil" THEN g = GoNil
            ELSE /\ g.g = "map"
                 /\ DOMAIN g.m = DOMAIN p.st.fields
                 /\ \A key \in DOMAIN g.m : SameValue(g.m[key], p.st.fields[key])
      [] p.pk = "ListValue" ->
            IF p.lv.lv = "nil" THEN g = GoNil
            ELSE /\ g.g = "slice"
                 /\ Len(g.l) = Len(p.lv.values)
                 /\ \A i \in DOMAIN g.l : SameValue(g.l[i], p.lv.values[i])

\* The text is a JSON object that decodes to the fields of the Struct s.
DecodesToFields(text, s) ==
    /\ UnmarshalText(text).err = ""
    /\ SameValue(UnmarshalText(text).v, PStruct(s))

\* The content text of the result written for a successful tool reply.
SuccessTexts(j) ==
    {e["result"].Content[1].Text : e \in ResponsesFor(sends[j].line)}

\* C14 as stated: for a tool reply with success = true the result has
\* isError = false and its text is the string value of the result's text
\* field when there is one, and otherwise a JSON serialization that decodes
\* back to the result's fields.
C14_TextOrJSON ==
    \A j \in ToolReplies :
        LET tc == sends[j].out.resp.tc
        IN tc.Success =>
              /\ \A e \in ResponsesFor(sends[j].line) : e["result"].IsError = FALSE
              /\ \A text \in SuccessTexts(j) :
                    IF "text" \in DOMAIN GetFields(tc.Result)
                    THEN text = GetStringValue(GetFields(tc.Result)["text"])
                    ELSE DecodesToFields(text, tc.Result)

\* C14 amended: the same when the result is present and every number in it
\* is finite; with an absent result the text is empty, and with a number
\* JSON cannot spell it is fmt's rendering of the map, which is not JSON.
C14_TextOrJSONWhenPresent ==
    \A j \in ToolReplies :
        LET tc == sends[j].out.resp.tc
        IN tc.Success =>
              /\ \A e \in ResponsesFor(sends[j].line) : e["result"].IsError = FALSE
              /\ \A text \in SuccessTexts(j) :
                    CASE tc.Result = NilStruct -> text = ""
                      [] "text" \in DOMAIN GetFields(tc.Result) ->
                            text = GetStringValue(GetFields(tc.Result)["text"])
                      [] Unencodable(StructToMap(tc.Result)) ->
                            /\ text = FormatV(StructToMap(tc.Result))
                            /\ UnmarshalText(text).err # ""
                      [] OTHER -> DecodesToFields(text, tc.Result)

C14_Witness ==
    \E j \in ToolReplies :
        /\ sends[j].out.resp.tc.Success
        /\ DOMAIN GetFields(sends[j].out.resp.tc.Result) = {"a", "b", "type"}
        /\ SuccessTexts(j) = {"{\"a\":\"abc-123\",\"b\":{\"count\":-2},\"type\":[]}"}
        /\ Answers(sends[j].line) # {}

\* The sequence without its lines of white space only (all of them, or only
\* those that fit the scanner's buffer).
WhiteOnly(line) == line.body = Empty
Fits(line) == line.size < maxScannerBuffer

WithoutBlank(lines) ==
    LET Keep(l) == ~WhiteOnly(l)
    IN SelectSeq(lines, Keep)

WithoutFittingBlank(lines) ==
    LET Keep(l) == ~(WhiteOnly(l) /\ Fits(l))
    IN SelectSeq(lines, Keep)

\* The lines the scanner returns before it ends: all of them, or those
\* before the first line that does not fit its buffer.
Scanned(lines) ==
    LET over == {i \in DOMAIN lines : ~Fits(lines[i])}
    IN IF over = {} THEN lines
       ELSE SubSeq(lines, 1, (CHOOSE i \in over : \A h \in over : i <= h) - 1)

\* What a run that ends with its input writes and sends over the first n
\* of the given lines, when its Send calls return outs[1], outs[2], ... :
\* the output lines and the backend requests, in order.
RECURSIVE RunOver(_, _, _)
RunOver(lines, outs, n) ==
    IF n = 0 THEN [output |-> <<>>, calls |-> <<>>]
    ELSE LET acc == RunOver(lines, outs, n - 1)
             u == UnmarshalRequest(lines[n].body)
             send == dispatchRequest(u.req)
         IN IF WhiteOnly(lines[n]) THEN acc
            ELSE IF u.err # ""
            THEN [acc EXCEPT !.output = Append(@, MarshalResponse(parseErrorResponse(u.err)))]
            ELSE IF send = NoRequest
            THEN IF dispatch(u.req, NoOutcome) = NilResponse THEN acc
                 ELSE [acc EXCEPT !.output =
                          Append(@, MarshalResponse(dispatch(u.req, NoOutcome)))]
            ELSE IF Len(acc.calls) >= Len(outs) THEN acc
            ELSE [output |-> Append(acc.output,
                                    MarshalResponse(dispatch(u.req, outs[Len(acc.calls) + 1]))),
                  calls |-> Append(acc.calls, send)]

\* Run has returned because its scanner ended (end of input, or a line
\* that does not fit), with what this run wrote and sent.
ScannerEnded == pc = "returned" /\ (ret = "nil" \/ HasPrefix(ret, "scanner error"))
CallsMade == [j \in DOMAIN sends |-> sends[j].req]
Replies == [j \in DOMAIN sends |-> sends[j].out]

\* C17 as stated: the run writes the output lines and makes the backend
\* calls of a run over the input without its blank lines.
C17_BlankLinesSkipped ==
    ScannerEnded =>
        LET lines == Scanned(WithoutBlank(input))
            run == RunOver(lines, Replies, Len(lines))
        IN output = run.output /\ CallsMade = run.calls

\* C17 amended: the same for the input without its blank lines that fit
\* the scanner's buffer; a blank line that does not fit ends the run.
C17_FittingBlankLinesSkipped ==
    ScannerEnded =>
        LET lines == Scanned(WithoutFittingBlank(input))
            run == RunOver(lines, Replies, Len(lines))
        IN output = run.output /\ CallsMade = run.calls

C17_Witness ==
    /\ pc = "returned" /\ ret = "nil"
    /\ input = <<LCall, LBlank, LPing>>
    /\ Len(output) = 2
    /\ Len(sends) = 1

\* C18: when the loop's check finds the context cancelled, Run returns the
\* cancellation error at once: the line just read is not dispatched, no
\* Send is made and no output line is written for it.
C18_StopsOnCancel ==
    /\ [](ret = "context canceled" =>
            /\ pc = "returned" /\ cancelled
            /\ SendsFor(pos) = {} /\ Answers(pos) = {})
    /\ [][(pc = "body" /\ cancelled) =>
            /\ pc' = "returned" /\ ret' = "context canceled"
            /\ UNCHANGED <<pos, req, resp, output, answered, torn, sends>>]_vars

C18_Witness ==
    /\ pc = "returned" /\ ret = "context canceled"
    /\ pos = 3
    /\ Len(output) >= 1
    /\ Decodes(input[pos])
    /\ RequestOf(input[pos]).Method = "tools/call"
    /\ SendsFor(pos) = {}

\* C19 as stated: with the context already cancelled at the top of an
\* iteration, Run stops there and reads no further line.
C19_CheckedBeforeRead ==
    [][(pc = "scan" /\ cancelled) => (pos' = pos /\ pc' = "returned")]_vars

\* C20: cancellation does not preempt a request in flight: once a line's
\* dispatch has begun, its response line is written even when the context
\* is cancelled during its backend call (the backend returning, the output
\* writer accepting the line).
C20_InFlightCompletes ==
    \A i \in 1..MaxLines :
        (pc \in {"send", "write", "writeParse"} /\ pos = i /\ cancelled)
            ~> (Answers(i) # {} \/ (pc = "returned" /\ HasPrefix(ret, "write")))

C20_Witness ==
    /\ pc = "write" /\ cancelled
    /\ \E j \in SendsFor(pos) : sends[j].returned /\ sends[j].req.req = "ToolCall"
    /\ pos >= 2
\* The Send calls that have not returned yet.
InFlight == {j \in DOMAIN sends : ~sends[j].returned}

\* C21: requests are processed one at a time: at most one backend Send is in
\* flight, it is the call of the line being processed, and a line is read
\* only when every Send has returned and every bearing line read so far has
\* its response line in the output.
C21_OneAtATime ==
    /\ [](/\ Cardinality(InFlight) <= 1
          /\ \A j \in InFlight : pc = "send" /\ j = Len(sends) /\ sends[j].line = pos)
    /\ [][pos' # pos => /\ pos' = pos + 1
                         /\ InFlight = {}
                         /\ answered = BearingLines(pos)
                         /\ Len(output) = Len(answered)]_vars

C21_Witness ==
    /\ input = <<LCall, LCall>>
    /\ pos = 2 /\ pc = "send"
    /\ Len(sends) = 2 /\ sends[1].returned /\ ~sends[2].returned
    /\ Len(output) = 1

\* C22: initialize and ping never fail: whatever the params and whatever
\* the backend would answer, a request for initialize is answered, without
\* a backend call, by one success envelope carrying protocol version
\* "2024-11-05", the tools and prompts capabilities and the server identity
\* orchestra 1.0.0, and a request for ping by one success envelope whose
\* result is the empty object.
C22_InitializeAndPingSucceed ==
    \A i \in 1..pos :
        LET method == RequestOf(input[i]).Method
        IN (Decodes(input[i]) /\ method \in {"initialize", "ping"}) =>
              /\ SendsFor(i) = {}
              /\ i <= Completed => Cardinality(Answers(i)) = 1
              /\ \A e \in ResponsesFor(i) :
                    /\ HasKey(e, "result") /\ ~HasKey(e, "error")
                    /\ IF method = "ping"
                       THEN e["result"] = [r |-> "map", m |-> GoMap(NoFields)]
                       ELSE /\ e["result"].r = "MCPInitializeResult"
                            /\ e["result"].ProtocolVersion = "2024-11-05"
                            /\ e["result"].Capabilities = [Tools |-> TRUE, Prompts |-> TRUE]
                            /\ e["result"].ServerInfo = [Name |-> "orchestra", Version |-> "1.0.0"]

C22_Witness ==
    /\ Len(input) = 1 /\ Decodes(input[1])
    /\ RequestOf(input[1]).Method = "initialize"
    /\ RequestOf(input[1]).Params = NilRaw
    /\ SendFailed("timeout: no recent network activity") \in backend
    /\ Len(output) = 1 /\ HasKey(output[1], "result")
    /\ output[1]["result"].r = "MCPInitializeResult"

\* The elements of seq at the positions of idx among the first n, in order.
RECURSIVE Pick(_, _, _)
Pick(seq, idx, n) ==
    IF n = 0 THEN <<>>
    ELSE IF n \in idx THEN Append(Pick(seq, idx, n - 1), seq[n])
    ELSE Pick(seq, idx, n - 1)

\* The input lines answered with an error envelope, and the rest of the run:
\* the other input lines, the output lines and Send calls made for them.
ErrorAnswered == {answered[k] : k \in {h \in DOMAIN output : HasKey(output[h], "error")}}
OtherLines == Pick(input, (DOMAIN input) \ ErrorAnswered, Len(input))
OtherOutput == Pick(output, {k \in DOMAIN output : answered[k] \notin ErrorAnswered}, Len(output))
OtherSends == Pick(sends, {j \in DOMAIN sends : sends[j].line \notin ErrorAnswered}, Len(sends))

\* C23: an error response never ends the run loop: once a ParseError,
\* MethodNotFound, InvalidParams or InternalError envelope is written Run
\* goes back to reading, and a run that ends with its input has written for
\* the other lines, and sent to the backend, what a run over the input
\* without the failing lines writes and sends.
C23_ErrorsDoNotAbort ==
    /\ [](ScannerEnded =>
            LET lines == Scanned(OtherLines)
                outs == [j \in DOMAIN OtherSends |-> OtherSends[j].out]
                run == RunOver(lines, outs, Len(lines))
            IN /\ OtherOutput = run.output
               /\ [j \in DOMAIN OtherSends |-> OtherSends[j].req] = run.calls
               /\ \A k \in DOMAIN output :
                     HasKey(output[k], "error") =>
                         output[k]["error"].Code \in
                             {ParseError, MethodNotFound, InvalidParams, InternalError})
    /\ [][(Len(output') = Len(output) + 1 /\ HasKey(output'[Len(output')], "error"))
            => (pc' = "scan" /\ ret' = "")]_vars

C23_Witness ==
    /\ input = <<LBad, LCall, LPing>>
    /\ pc = "returned" /\ ret = "nil"
    /\ Len(output) = 3
    /\ IsError(output[1], ParseError)
    /\ IsError(output[2], InternalError)
    /\ HasKey(output[3], "result")

\* C24 as stated: Run returns an error only for a response that could not
\* be written out or for a fault of the input stream.
C24_OnlySerializeOrInputFault ==
    (pc = "returned" /\ ret # "nil") =>
        (HasPrefix(ret, "write") \/ HasPrefix(ret, "scanner error"))

\* C24 amended: Run returns nil only at the end of the input with every
\* bearing line answered, and it returns an error in three cases and no
\* other: the response of the current line could not be written
\* (serialization or the output writer failed), the scanner stopped at a
\* line that does not fit its buffer, or the context was found cancelled
\* after a line had been read.
C24_ReturnsErrorOnWriteInputOrCancel ==
    pc = "returned" =>
        CASE ret = "nil" -> pos = Len(input) /\ AllAnswered
          [] HasPrefix(ret, "scanner error") -> pos < Len(input) /\ ~Fits(input[pos + 1])
          [] ret = "context canceled" ->
                 cancelled /\ pos >= 1 /\ Answers(pos) = {} /\ SendsFor(pos) = {}
          [] HasPrefix(ret, "write") ->
                 /\ pos >= 1 /\ Bearing(input[pos]) /\ Answers(pos) = {}
                 /\ HasPrefix(ret, "write parse error response: ") <=> ~Decodes(input[pos])
                 /\ Contains(ret, "marshal response: ") <=> ResponseUnencodable(resp)
          [] OTHER -> FALSE

C24_Witness ==
    /\ input = <<LPing, LCall>>
    /\ pc = "returned" /\ ret = "context canceled"
    /\ pos = 2 /\ Len(output) = 1 /\ sends = <<>>

\* The structured value is built from null, number, string, bool, list and
\* string-keyed map alone: no nil Value, Struct or ListValue inside it and
\* no number that JSON cannot spell.
RECURSIVE Expressible(_)
Expressible(p) ==
    CASE p.pk \in {"NullValue", "StringValue", "BoolValue"} -> TRUE
      [] p.pk = "NumberValue" -> "f" \notin DOMAIN p
      [] p.pk = "StructValue" ->
            /\ p.st.st = "struct"
            /\ \A key \in DOMAIN p.st.fields : Expressible(p.st.fields[key])
      [] p.pk = "ListValue" ->
            /\ p.lv.lv = "list"
            /\ \A i \in DOMAIN p.lv.values : Expressible(p.lv.values[i])
      [] OTHER -> FALSE

\* The tools/list calls the backend answered with a list of tools.
ListReplies ==
    {j \in ReturnedSends : /\ ~sends[j].out.failed
                           /\ sends[j].req.req = "ListTools"
                           /\ sends[j].out.resp.resp = "ListTools"}

\* The tools/call requests sent with an arguments Struct.
ArgumentSends ==
    {j \in DOMAIN sends : sends[j].req.req = "ToolCall" /\ sends[j].req.Arguments # NilStruct}

\* C25: round trip. The native schema StructToMap rendered for a tool
\* definition translates back, with MapToStruct, to the backend's Struct; a
\* tool result translated to native and back is the result; and the Struct
\* made of a request's native arguments map translates back, with
\* StructToMap, to that map.
C25_RoundTrip ==
    /\ \A j \in ListReplies : \A e \in ResponsesFor(sends[j].line) :
          \A i \in DOMAIN sends[j].out.resp.Tools :
              LET s == sends[j].out.resp.Tools[i].InputSchema
              IN Expressible(PStruct(s)) =>
                    MapToStruct(e["result"].Tools[i].InputSchema) = [err |-> "", s |-> s]
    /\ \A j \in ToolReplies :
          LET s == sends[j].out.resp.tc.Result
          IN Expressible(PStruct(s)) => MapToStruct(StructToMap(s)) = [err |-> "", s |-> s]
    /\ \A j \in ArgumentSends :
          StructToMap(sends[j].req.Arguments) = ParamsOf(input[sends[j].line]).Arguments

C25_Witness ==
    /\ Len(output) = 1 /\ HasKey(output[1], "result")
    /\ ListReplies = {1}
    /\ Len(output[1]["result"].Tools) = 3
    /\ output[1]["result"].Tools[2].Name = "all"
    /\ output[1]["result"].Tools[2].InputSchema.m["type"].l[1] = GoBool(FALSE)

\* The native arguments map decoded from the request of Send call j.
NativeArguments(j) == ParamsOf(input[sends[j].line]).Arguments.m

\* C26 as stated: a key of the native arguments map whose value is an
\* explicit null is not a key of the Struct sent to the backend.
C26_NullKeyDropped ==
    \A j \in ArgumentSends : \A key \in DOMAIN NativeArguments(j) :
        NativeArguments(j)[key] = GoNil =>
            key \notin DOMAIN sends[j].req.Arguments.fields

\* C26 amended: the Struct sent to the backend has exactly the keys of the
\* native arguments map, and a key whose value is an explicit null is kept
\* with the structured null as its value; only an arguments member that is
\* itself null or missing leaves the request without arguments.
C26_NullKeyKept ==
    /\ \A j \in ArgumentSends :
          LET native == NativeArguments(j)
          IN /\ DOMAIN sends[j].req.Arguments.fields = DOMAIN native
             /\ \A key \in DOMAIN native :
                   native[key] = GoNil <=> sends[j].req.Arguments.fields[key] = PNull
    /\ \A j \in DOMAIN sends :
          sends[j].req.req = "ToolCall" =>
              (sends[j].req.Arguments = NilStruct
                   <=> ParamsOf(input[sends[j].line]).Arguments = GoNilMap)

C26_Witness ==
    /\ ArgumentSends = {1}
    /\ NativeArguments(1) = ("a" :> GoNil) @@ ("b" :> GoString("x"))
    /\ sends[1].req.Arguments = Struct(("a" :> PNull) @@ ("b" :> PString("x")))
    /\ sends[1].returned

\* The Structs the backend returned: input schemas of tool definitions and
\* results of tool calls.
ReturnedStructs ==
    UNION {{sends[j].out.resp.Tools[i].InputSchema : i \in DOMAIN sends[j].out.resp.Tools} :
              j \in ListReplies}
    \cup {sends[j].out.resp.tc.Result : j \in ToolReplies}

\* The tools/call requests sent for params without an arguments map.
NoArgumentSends ==
    {j \in DOMAIN sends : /\ sends[j].req.req = "ToolCall"
                          /\ ParamsOf(input[sends[j].line]).Arguments = GoNilMap}

\* A tool definition without input schema is rendered without inputSchema.
AbsentSchemaRendered ==
    \A j \in ListReplies : \A e \in ResponsesFor(sends[j].line) :
        \A i \in DOMAIN sends[j].out.resp.Tools :
            sends[j].out.resp.Tools[i].InputSchema = NilStruct
                <=> e["result"].Tools[i].InputSchema = GoNil

\* C27 as stated: absent translates to absent in both directions: a nil
\* Struct to a nil map, a nil arguments map to a nil Struct, a tool
\* definition without input schema to one without inputSchema.
C27_AbsentStaysAbsent ==
    /\ \A s \in ReturnedStructs : s = NilStruct <=> StructToMap(s) = GoNilMap
    /\ \A j \in NoArgumentSends :
          MapToStruct(ParamsOf(input[sends[j].line]).Arguments).s = NilStruct
    /\ AbsentSchemaRendered

\* C27 amended: StructToMap makes a nil map of a nil Struct and of no other,
\* and a tool definition without input schema is rendered without
\* inputSchema; MapToStruct makes an allocated, empty Struct of a nil map,
\* and a tools/call without arguments reaches the backend with a nil Struct
\* because handleToolsCall does not convert a nil map.
C27_AbsentExceptMapToStruct ==
    /\ \A s \in ReturnedStructs : s = NilStruct <=> StructToMap(s) = GoNilMap
    /\ \A j \in NoArgumentSends :
          /\ MapToStruct(ParamsOf(input[sends[j].line]).Arguments)
                 = [err |-> "", s |-> Struct(NoFields)]
          /\ sends[j].req.Arguments = NilStruct
    /\ AbsentSchemaRendered

C27_Witness ==
    /\ NoArgumentSends = {1}
    /\ sends[1].req.Arguments = NilStruct
    /\ ToolReplies = {1}
    /\ sends[1].out.resp.tc.Result = NilStruct
    /\ Len(output) = 1

\* C28: the result written for a tools/list the backend answered holds
\* the backend's tool definitions, as many and in the same order, each with
\* the backend's name and description and with the native value tree of its
\* input schema; an empty list is answered with an empty list.
C28_ToolsListPreserved ==
    \A j \in ListReplies :
        LET tools == sends[j].out.resp.Tools
        IN /\ (pc = "scan" /\ sends[j].line <= pos) => Answers(sends[j].line) # {}
           /\ \A e \in ResponsesFor(sends[j].line) :
                 /\ HasKey(e, "result") /\ ~HasKey(e, "error")
                 /\ e["result"].r = "toolsListResult"
                 /\ Len(e["result"].Tools) = Len(tools)
                 /\ \A i \in DOMAIN tools :
                       /\ e["result"].Tools[i].Name = tools[i].Name
                       /\ e["result"].Tools[i].Description = tools[i].Description
                       /\ SameValue(e["result"].Tools[i].InputSchema,
                                    PStruct(tools[i].InputSchema))

C28_Witness ==
    /\ ListReplies = {1}
    /\ Len(output) = 1 /\ HasKey(output[1], "result")
    /\ Len(output[1]["result"].Tools) = 3
    /\ [i \in 1..3 |-> output[1]["result"].Tools[i].Name] = <<"noop", "all", "echo">>
    /\ output[1]["result"].Tools[3].Description = "Echo the input"

\* The callers that are between t.mu.Lock() and the deferred Unlock, and
\* the places of the output pieces a caller wrote.
Holding == {c \in DOMAIN callers : callers[c].at \in {"write", "newline", "unlock"}}
PiecesBy(c) == {k \in DOMAIN output : output[k].by = c}

\* C29: with writeResponse called from several goroutines at once, at most
\* one caller is inside the locked section and it is the holder of the
\* mutex, which is free whenever no caller is inside (so after every
\* return, failed or not); each newline directly follows the JSON text of
\* its own response, no piece of another response follows a JSON text
\* whose write is still going on, a call that returned nil left exactly its
\* line, and a call whose serialization failed left nothing.
C29_WritesExclusive ==
    /\ Cardinality(Holding) <= 1
    /\ \A c \in DOMAIN callers : c \in Holding <=> mu = c
    /\ mu \in {0} \cup Holding
    /\ \A k \in DOMAIN output :
          /\ output[k].part = "newline" =>
                 (k > 1 /\ output[k - 1].part = "json" /\ output[k - 1].by = output[k].by)
          /\ (output[k].part = "json" /\ k < Len(output)) =>
                 (output[k + 1].by = output[k].by \/ callers[output[k].by].err # "")
    /\ \A c \in DOMAIN callers :
          /\ (callers[c].at = "done" /\ callers[c].err = "") =>
                 \E k \in DOMAIN output :
                     /\ PiecesBy(c) = {k, k + 1}
                     /\ output[k] = [by |-> c, part |-> "json",
                                     text |-> MarshalResponse(callers[c].resp)]
                     /\ output[k + 1] = [by |-> c, part |-> "newline"]
          /\ HasPrefix(callers[c].err, "marshal response: ") => PiecesBy(c) = {}

C29_Witness ==
    /\ DOMAIN callers = 1..NumCallers
    /\ callers[1].at = "newline" /\ mu = 1
    /\ callers[2].at = "lock"
    /\ Len(output) = 1 /\ output[1].by = 1

\* C30: the step in which Run writes a response that serializes either
\* appends exactly the one line that spells the response and goes on to the
\* next line, or, when the output writer fails, makes Run return the
\* writer's error; a response that cannot be serialized leaves the output
\* exactly as it was, without a byte of a line, and makes Run return the
\* serialization error; and the lines of the output are whole lines, one
\* for each answered request, with a part of a line behind them only after
\* a failure of the output writer, never after a failure to serialize.
C30_LineOrNothing ==
    /\ [](/\ Len(output) = Len(answered)
          /\ \A k \in DOMAIN output : {"jsonrpc", "id"} \subseteq DOMAIN output[k]
          /\ (pc = "returned" /\ Contains(ret, "marshal response: ")) =>
                 (Answers(pos) = {} /\ ResponseUnencodable(resp) /\ torn = NoFragment)
          /\ torn # NoFragment =>
                 (pc = "returned" /\ HasPrefix(ret, "write ")
                  /\ ~ResponseUnencodable(resp) /\ torn.of = MarshalResponse(resp)))
    /\ [][(pc \in {"write", "writeParse"} /\ pc' # pc) =>
            IF ResponseUnencodable(resp)
            THEN /\ output' = output /\ torn' = NoFragment
                 /\ pc' = "returned"
                 /\ HasPrefix(ret', "write response: marshal response: json: unsupported value: ")
            ELSE \/ /\ output' = Append(output, MarshalResponse(resp)) /\ torn' = NoFragment
                    /\ pc' = "scan" /\ ret' = ""
                 \/ /\ output' = output /\ pc' = "returned" /\ HasPrefix(ret', "write ")
                    /\ ~Contains(ret', "marshal response: ")]_vars

C30_Witness ==
    /\ pc = "returned"
    /\ ret = "write response: marshal response: json: unsupported value: +Inf"
    /\ Len(input) = 1 /\ pos = 1
    /\ Len(sends) = 1 /\ sends[1].returned
    /\ output = <<>> /\ torn = NoFragment

\* What the backend returned to the Send call made for input line i, if
\* one was made and has returned.
ReplyTo(i) ==
    IF \E j \in SendsFor(i) : sends[j].returned
    THEN sends[CHOOSE j \in SendsFor(i) : sends[j].returned].out
    ELSE NoOutcome

\* The response line that the request on `line` and the reply `out` determine.
ResponseTo(line, out) ==
    LET u == UnmarshalRequest(TrimSpace(line))
    IN IF u.err = "" THEN MarshalResponse(dispatch(u.req, out))
       ELSE MarshalResponse(parseErrorResponse(u.err))

\* C31: the bridge keeps nothing between requests: every response line is
\* the one its own request and the backend's reply to it determine, and
\* every backend request the one its own request determines, whatever was
\* processed before; so two requests with the same text and the same reply
\* get the same response, and tools/list, tools/call and ping are served
\* without a preceding initialize.
C31_Stateless ==
    /\ \A k \in DOMAIN output : output[k] = ResponseTo(LineOf(k), ReplyTo(answered[k]))
    /\ \A j \in DOMAIN sends :
          sends[j].req = dispatchRequest(RequestOf(input[sends[j].line]))
    /\ \A k, h \in DOMAIN output :
          (k < h /\ TrimSpace(LineOf(k)) = TrimSpace(LineOf(h))
                 /\ ReplyTo(answered[k]) = ReplyTo(answered[h])) => output[k] = output[h]

C31_Witness ==
    /\ input = <<LCall, LInit, LCall>>
    /\ pc = "returned" /\ ret = "nil"
    /\ Len(output) = 3
    /\ HasKey(output[1], "result")
    /\ output[1] = output[3]

\* The params object spelled on a line.
ParamsMembersOf(line) ==
    MemberFor(TrimSpace(line).v, "params", {"jsonrpc", "id", "method", "params"})

\* C32: every backend request sent for a tools/call carries the name
\* spelled in the request's params, the caller tag "transport.stdio", and as
\* arguments a Struct that holds what the request's arguments object holds,
\* or no Struct at all when the request has no arguments member or a null one.
C32_ToolRequestCarriesCall ==
    \A j \in DOMAIN sends :
        sends[j].req.req = "ToolCall" =>
            LET o == ParamsMembersOf(input[sends[j].line])
                name == MemberFor(o, "name", {"name", "arguments"})
                arguments == MemberFor(o, "arguments", {"name", "arguments"})
            IN /\ RequestOf(input[sends[j].line]).Method = "tools/call"
               /\ name = JStr(sends[j].req.ToolName)
               /\ sends[j].req.ToolName # ""
               /\ sends[j].req.CallerPlugin = "transport.stdio"
               /\ IF arguments.k \notin {"none", "null"}
                  THEN /\ sends[j].req.Arguments # NilStruct
                       /\ SameValue(JSONToGo(arguments), PStruct(sends[j].req.Arguments))
                  ELSE sends[j].req.Arguments = NilStruct

C32_Witness ==
    /\ Len(sends) = 1 /\ sends[1].returned
    /\ sends[1].req.req = "ToolCall"
    /\ sends[1].req.ToolName = "echo"
    /\ sends[1].req.CallerPlugin = "transport.stdio"
    /\ sends[1].req.Arguments =
           Struct(("a" :> PList(ListValue(<<PNumber(1), PBool(FALSE)>>)))
                  @@ ("b" :> PStruct(Struct("count" :> PNumber(2)))))

\* The line is a request whose handler calls the backend: tools/list,
\* prompts/list, or a tools/call or prompts/get that passes validation.
NeedsSend(line) ==
    LET u == UnmarshalRequest(TrimSpace(line))
    IN /\ ~Blank(line)
       /\ u.err = ""
       /\ \/ u.req.Method \in {"tools/list", "prompts/list"}
          \/ u.req.Method \in {"tools/call", "prompts/get"} /\ ~LacksName(line)

\* C33: no retry and no spurious call: a line the loop has dealt with
\* caused exactly one Send when it is a tools/list, a prompts/list or a
\* valid tools/call or prompts/get, also when that Send failed, and none
\* when it is anything else (initialize, ping, a notification, an unknown
\* method, a blank or unparsable line); no line ever causes two.
C33_AtMostOneSend ==
    /\ \A i \in DOMAIN input :
          LET n == Cardinality(SendsFor(i))
          IN IF i > pos THEN n = 0
             ELSE IF NeedsSend(input[i]) THEN n <= 1 /\ (i <= Completed => n = 1)
             ELSE n = 0
    /\ \A j \in FailedSends : SendsFor(sends[j].line) = {j}

C33_Witness ==
    /\ input = <<LList, LBad, LCall>>
    /\ pc = "returned" /\ ret = "nil"
    /\ Len(sends) = 2
    /\ FailedSends = {1, 2}
    /\ Len(output) = 3

\* C34: whether a decoded request is answered depends on its method alone:
\* it is answered exactly when the method does not start with
\* notifications/, with or without an id member; a request without id that
\* is answered gets one line whose id is null; and the output has as many
\* lines as there are finished non-blank lines other than notifications.
C34_MethodDecidesResponse ==
    /\ \A i \in 1..Completed :
          LET u == UnmarshalRequest(TrimSpace(input[i]))
          IN (~Blank(input[i]) /\ u.err = "") =>
                /\ Cardinality(Answers(i)) =
                       (IF HasPrefix(u.req.Method, "notifications/") THEN 0 ELSE 1)
                /\ ~HasIdMember(input[i]) =>
                       \A k \in Answers(i) : output[k]["id"] = JNull
    /\ Len(output) = Cardinality({i \in 1..Completed : Bearing(input[i])})

C34_Witness ==
    /\ input = <<LPingNoId>>
    /\ ~HasIdMember(input[1])
    /\ pc = "returned" /\ ret = "nil"
    /\ Len(output) = 1
    /\ output[1]["id"] = JNull /\ HasKey(output[1], "result")

\* The line decodes and its version tag is missing or is not "2.0".
OddVersion(line) == Decodes(line) /\ RequestOf(line).JSONRPC # "2.0"

\* C35: every error envelope written carries ParseError, MethodNotFound,
\* InvalidParams or InternalError and never InvalidRequest; a decodable line
\* is dispatched whatever its version tag says, its response being that of
\* the same request tagged "2.0" and itself tagged "2.0"; and an empty or
\* missing method name is answered as an unknown method.
C35_NoInvalidRequest ==
    \A k \in DOMAIN output :
        /\ HasKey(output[k], "error") =>
               /\ output[k]["error"].Code \in
                      {ParseError, MethodNotFound, InvalidParams, InternalError}
               /\ output[k]["error"].Code # InvalidRequest
        /\ output[k]["jsonrpc"] = JStr("2.0")
        /\ LET u == UnmarshalRequest(TrimSpace(LineOf(k)))
           IN u.err = "" =>
                 /\ output[k] = MarshalResponse(
                                    dispatch([u.req EXCEPT !.JSONRPC = "2.0"],
                                             ReplyTo(answered[k])))
                 /\ u.req.Method = "" => IsError(output[k], MethodNotFound)

C35_Witness ==
    /\ Len(input) = 1 /\ OddVersion(input[1])
    /\ RequestOf(input[1]).JSONRPC = "1.0"
    /\ RequestOf(input[1]).Method = "ping"
    /\ Len(output) = 1 /\ HasKey(output[1], "result")

\* The successful tool replies whose result has a text field that is not
\* a string.
OddTextReplies ==
    {j \in ToolReplies :
        /\ sends[j].out.resp.tc.Success
        /\ "text" \in DOMAIN GetFields(sends[j].out.resp.tc.Result)
        /\ GetFields(sends[j].out.resp.tc.Result)["text"].pk # "StringValue"}

\* C36: for a tool reply with success = true the content text is empty
\* when the result is absent and when the result's text field is a number,
\* a bool, a null, a list or a map; a text that is the JSON serialization
\* of the result is written only for a present result without text field.
C36_EmptyTextCases ==
    \A j \in ToolReplies :
        LET result == sends[j].out.resp.tc.Result
        IN sends[j].out.resp.tc.Success =>
              \A text \in SuccessTexts(j) :
                  /\ result = NilStruct => text = ""
                  /\ j \in OddTextReplies => text = ""
                  /\ (result # NilStruct /\ DecodesToFields(text, result)) =>
                         "text" \notin DOMAIN GetFields(result)

C36_Witness ==
    /\ OddTextReplies = {1}
    /\ sends[1].out.resp.tc.Result = Struct(("text" :> PBool(TRUE)) @@ ("a" :> PString("x")))
    /\ Len(output) = 1
    /\ SuccessTexts(1) = {""}

====
